---------------------------- MODULE Spec2Model ----------------------------
(***************************************************************************)
(* A model of vapoursynth-analog: the JSON -> SQLite sidecar migration,    *)
(* the SQLite metadata reader, TbcReader (open, decoder selection,         *)
(* geometry, decodeFrame), VSAnalog4fscSource (dual-source validation,     *)
(* GetFrame, convertToFloat) and the plugin callbacks (Create4fscSource,   *)
(* VSAnalog4fscSourceGetFrame, VSAnalog4fscSourceFree).                    *)
(*                                                                         *)
(* Conventions                                                             *)
(*   - a file name is the sequence of extensions that follows the stem of  *)
(*     the source path: <<"db">> is base(P)+".db", <<"tbc","db">> is       *)
(*     "capture.tbc.db"; a disk is a function from the names of the files  *)
(*     that exist to their contents;                                       *)
(*   - a nullable SQL column is a sequence: <<>> is NULL, <<v>> is v;      *)
(*   - a JSON object is a function from the keys it contains to values;    *)
(*   - the decode engines (Comb, PalColour, MonoDecoder), SourceVideo and  *)
(*     LdDecodeMetaData belong to the vendored ld-decode library: the      *)
(*     model keeps only what the wrapper code reads from them.             *)
(***************************************************************************)
EXTENDS Integers, Sequences, FiniteSets, TLC

VARIABLES
    disk,        \* [role -> [file name -> content]]: the files beside each source path
    reader,      \* [role -> TbcReader]: the primary ("luma") and the chroma reader
    D,           \* the DecodeConfig of the created filter (D.exists = FALSE: none)
    lastCall,    \* what the last Create4fscSource call did (error text, migration)
    decodeMutex, \* VSAnalog4fscSource::decodeMutex: the set of threads holding it
    pc,          \* [thread -> position of its frame request]
    req,         \* [thread -> the frame number it requested]
    engine,      \* [role -> state of the reader's decode engine]
    out,         \* [thread -> what its last request returned]
    frame,       \* the frame last returned to the host by the one-step callback
    qtApp        \* the process-wide QCoreApplication: instance() and the static qtApp

vars == <<disk, reader, D, lastCall, decodeMutex, pc, req, engine, out, frame, qtApp>>

-----------------------------------------------------------------------------
(* Bounds of the model *)

MaxFields == 4       \* field elements in a JSON sidecar / rows in a store
MaxThreads == 2      \* concurrent frame requests
MaxPad == 4          \* largest padding multiple tried besides the default

Roles == {"luma", "chroma"}
Threads == 1..MaxThreads

-----------------------------------------------------------------------------
(* Small helpers *)

Max(a, b) == IF a >= b THEN a ELSE b

Abs(a) == IF a < 0 THEN -a ELSE a

\* C++ integer division: truncation toward zero (b # 0).
CDiv(a, b) ==
    IF (a >= 0) = (b > 0) THEN Abs(a) \div Abs(b) ELSE -(Abs(a) \div Abs(b))

RECURSIVE Gcd(_, _)
Gcd(a, b) == IF b = 0 THEN a ELSE Gcd(b, a % b)

\* The ascending list of a finite set of integers (ORDER BY).
RECURSIVE SortedSeq(_)
SortedSeq(S) ==
    IF S = {} THEN <<>>
    ELSE LET m == CHOOSE x \in S : \A y \in S : x <= y
         IN <<m>> \o SortedSeq(S \ {m})

Has(obj, k) == k \in DOMAIN obj

-----------------------------------------------------------------------------
(* jsonconverter_wrapper.cpp *)

VideoParams ==
    [system |-> "NTSC", fieldWidth |-> 0, fieldHeight |-> 0,
     activeVideoStart |-> 0, activeVideoEnd |-> 0,
     white16bIre |-> 0, black16bIre |-> 0, isWidescreen |-> FALSE]

FieldData ==
    [seqNo |-> 0, isFirstField |-> FALSE, audioSamples |-> -1, diskLoc |-> -1,
     fileLoc |-> -1, decodeFaults |-> -1, efmTValues |-> -1]

\* Every key present in the object overrides the default; the others keep it.
parseVideoParams(obj) ==
    [k \in DOMAIN VideoParams |-> IF Has(obj, k) THEN obj[k] ELSE VideoParams[k]]

\* Every key present in the element overrides the default. The numbers of
\* the model's sidecars all fit an int, where toInt() and toLongLong() return
\* the number itself.
parseField(obj) ==
    [k \in DOMAIN FieldData |-> IF Has(obj, k) THEN obj[k] ELSE FieldData[k]]

\* The schema's CHECK (system IN ('NTSC','PAL','PAL_M')).
SystemCheck == {"NTSC", "PAL", "PAL_M"}

\* The file right after createSchema: both tables exist, no row. The schema
\* statements run before BEGIN TRANSACTION, so they are committed on their own.
createSchema == [kind |-> "db", capture |-> <<>>, fields |-> <<>>]

\* The capture row bound by the INSERT INTO capture statement.
CaptureRow(vp, nFields) ==
    [system |-> vp.system,
     field_width |-> vp.fieldWidth, field_height |-> vp.fieldHeight,
     active_video_start |-> vp.activeVideoStart,
     active_video_end |-> vp.activeVideoEnd,
     white_16b_ire |-> vp.white16bIre, black_16b_ire |-> vp.black16bIre,
     is_widescreen |-> IF vp.isWidescreen THEN 1 ELSE 0,
     number_of_sequential_fields |-> nFields]

\* A binding that stores every value, 0 and negative ones included.
BindAlways(v) == <<v>>

\* A value bound only when > 0, SQL NULL otherwise.
BindPositive(v) == IF v > 0 THEN <<v>> ELSE <<>>

\* The field row bound by the INSERT INTO field_record statement: seqNo is
\* used directly as field_id.
FieldRow(f) ==
    [field_id |-> f.seqNo,
     is_first_field |-> IF f.isFirstField THEN 1 ELSE 0,
     audio_samples |-> BindPositive(f.audioSamples),
     decode_faults |-> BindPositive(f.decodeFaults),
     disk_loc |-> BindPositive(f.diskLoc),
     efm_t_values |-> BindPositive(f.efmTValues),
     file_loc |-> BindPositive(f.fileLoc)]

\* The field inserts, in array order, inside the transaction: the index of the
\* first insert that violates PRIMARY KEY (capture_id, field_id), 0 if none.
FirstFailingInsert(fields) ==
    LET bad == {i \in 1..Len(fields) :
                   \E j \in 1..(i - 1) : fields[j].seqNo = fields[i].seqNo}
    IN IF bad = {} THEN 0 ELSE CHOOSE i \in bad : \A j \in bad : i <= j

\* convertJsonToSqlite(jsonPath, sqlitePath) on disk d: the result and the disk
\* it leaves. step tells how far the conversion went.
convertJsonToSqlite(d, jsonPath, sqlitePath) ==
    LET doc == d[jsonPath]
        with(content) ==
            [n \in DOMAIN d \cup {sqlitePath} |->
                IF n = sqlitePath THEN content ELSE d[n]]
    IN  IF ~doc.wellFormed
        THEN [ok |-> FALSE, disk |-> d, step |-> "parse"]
        ELSE
        LET videoParams == IF Has(doc.root, "videoParameters")
                           THEN parseVideoParams(doc.root.videoParameters)
                           ELSE VideoParams
            fields == IF Has(doc.root, "fields")
                      THEN [i \in 1..Len(doc.root.fields) |->
                               parseField(doc.root.fields[i])]
                      ELSE <<>>
        IN  IF videoParams.system \notin SystemCheck
            THEN [ok |-> FALSE, disk |-> with(createSchema), step |-> "capture"]
            ELSE IF FirstFailingInsert(fields) # 0
            THEN [ok |-> FALSE, disk |-> with(createSchema), step |-> "field"]
            ELSE [ok |-> TRUE,
                  disk |-> with([kind |-> "db",
                                 capture |-> <<CaptureRow(videoParams, Len(fields))>>,
                                 fields |-> [i \in 1..Len(fields) |-> FieldRow(fields[i])]]),
                  step |-> "commit"]

-----------------------------------------------------------------------------
(* sqlite3_metadata_reader.cpp *)

\* LdDecodeMetaData::VideoParameters before anything is read into it.
NoVideoParameters ==
    [system |-> "NTSC", fieldWidth |-> 0, fieldHeight |-> 0,
     activeVideoStart |-> 0, activeVideoEnd |-> 0,
     white16bIre |-> 0, black16bIre |-> 0, isWidescreen |-> FALSE,
     numberOfSequentialFields |-> 0,
     firstActiveFrameLine |-> 0, lastActiveFrameLine |-> 0, isValid |-> FALSE]

\* metadata.clear()
NoMetadata == [videoParameters |-> NoVideoParameters, fields |-> <<>>]

PalFirstActiveFrameLine == 44
PalLastActiveFrameLine == 620
NtscFirstActiveFrameLine == 40
NtscLastActiveFrameLine == 525

getIntColumn(col, defaultVal) == IF col = <<>> THEN defaultVal ELSE col[1]

getDoubleColumn(col, defaultVal) == IF col = <<>> THEN defaultVal ELSE col[1]

getInt64Column(col, defaultVal) == IF col = <<>> THEN defaultVal ELSE col[1]

\* The system column as the reader parses it: PAL, PAL_M, anything else NTSC.
ParseSystem(systemStr) ==
    IF systemStr = "PAL" THEN "PAL"
    ELSE IF systemStr = "PAL_M" THEN "PAL_M"
    ELSE "NTSC"

\* readVideoParameters(db, vp): ok is FALSE when the file holds no capture
\* table or no capture row.
readVideoParameters(db) ==
    IF db.kind # "db" \/ db.capture = <<>>
    THEN [ok |-> FALSE, vp |-> NoVideoParameters]
    ELSE
    LET row == db.capture[1]
        system == ParseSystem(row.system)
    IN [ok |-> TRUE,
        vp |-> [system |-> system,
                fieldWidth |-> row.field_width,
                fieldHeight |-> row.field_height,
                activeVideoStart |-> row.active_video_start,
                activeVideoEnd |-> row.active_video_end,
                white16bIre |-> row.white_16b_ire,
                black16bIre |-> row.black_16b_ire,
                isWidescreen |-> row.is_widescreen # 0,
                numberOfSequentialFields |-> row.number_of_sequential_fields,
                firstActiveFrameLine |->
                    IF system = "PAL" THEN PalFirstActiveFrameLine
                    ELSE NtscFirstActiveFrameLine,
                lastActiveFrameLine |->
                    IF system = "PAL" THEN PalLastActiveFrameLine
                    ELSE NtscLastActiveFrameLine,
                isValid |-> TRUE]]

\* One LdDecodeMetaData::Field from a field_record row.
ReadFieldRow(row) ==
    [seqNo |-> row.field_id + 1,
     isFirstField |-> row.is_first_field # 0,
     audioSamples |-> getIntColumn(row.audio_samples, -1),
     diskLoc |-> getDoubleColumn(row.disk_loc, -1),
     fileLoc |-> getInt64Column(row.file_loc, -1),
     decodeFaults |-> getIntColumn(row.decode_faults, 0)]

\* A read of the rows in the order they are stored.
readFieldsAsStored(db) ==
    LET fields == [k \in 1..Len(db.fields) |-> ReadFieldRow(db.fields[k])]
    IN [ok |-> Len(fields) # 0, fields |-> fields]

\* readFields(db, metadata): the rows ORDER BY field_id; fails on no row.
readFields(db) ==
    LET ids == SortedSeq({db.fields[i].field_id : i \in 1..Len(db.fields)})
        rowOf(id) == CHOOSE i \in 1..Len(db.fields) : db.fields[i].field_id = id
        fields == [k \in 1..Len(ids) |-> ReadFieldRow(db.fields[rowOf(ids[k])])]
    IN [ok |-> Len(fields) # 0, fields |-> fields]

\* Sqlite3MetadataReader::read(dbPath, metadata)
Sqlite3MetadataReaderRead(db) ==
    LET vp == readVideoParameters(db)
    IN  IF ~vp.ok
        THEN [ok |-> FALSE, metadata |-> NoMetadata]
        ELSE LET f == readFields(db)
             IN [ok |-> f.ok,
                 metadata |-> [videoParameters |-> vp.vp, fields |-> f.fields]]

-----------------------------------------------------------------------------
(* tbcreader.cpp *)

DecoderType ==
    {"Ntsc1D", "Ntsc2D", "Ntsc3D", "Ntsc3DNoAdapt",
     "Pal2D", "Transform2D", "Transform3D", "Mono", "Auto"}

NtscDecoders == {"Ntsc1D", "Ntsc2D", "Ntsc3D", "Ntsc3DNoAdapt"}
PalDecoders == {"Pal2D", "Transform2D", "Transform3D"}

\* QString::toLower on the decoder names the model passes.
ToLower(name) ==
    CASE name = "PAL2D" -> "pal2d"
      [] name = "Mono" -> "mono"
      [] name = "NTSC3D" -> "ntsc3d"
      [] name = "Transform3D" -> "transform3d"
      [] OTHER -> name

\* A parse that compares the name as it was written.
parseDecoderNameExact(name) ==
    CASE name = "ntsc1d" -> "Ntsc1D"
      [] name = "ntsc2d" -> "Ntsc2D"
      [] name = "ntsc3d" -> "Ntsc3D"
      [] name = "ntsc3dnoadapt" -> "Ntsc3DNoAdapt"
      [] name = "pal2d" -> "Pal2D"
      [] name = "transform2d" -> "Transform2D"
      [] name = "transform3d" -> "Transform3D"
      [] name = "mono" -> "Mono"
      [] OTHER -> "Auto"

parseDecoderName(name) ==
    LET lower == ToLower(name)
    IN CASE lower = "ntsc1d" -> "Ntsc1D"
         [] lower = "ntsc2d" -> "Ntsc2D"
         [] lower = "ntsc3d" -> "Ntsc3D"
         [] lower = "ntsc3dnoadapt" -> "Ntsc3DNoAdapt"
         [] lower = "pal2d" -> "Pal2D"
         [] lower = "transform2d" -> "Transform2D"
         [] lower = "transform3d" -> "Transform3D"
         [] lower = "mono" -> "Mono"
         [] OTHER -> "Auto"

\* TbcReader::Configuration as default-constructed.
Configuration ==
    [paddingMultiple |-> 8, reverseFields |-> FALSE, decoder |-> "Auto"]

\* A TbcReader right after its constructor.
TbcReader ==
    [isOpen |-> FALSE, config |-> Configuration, metadata |-> NoMetadata,
     sourceVideo |-> FALSE, engines |-> {}, chromaFilter |-> "none",
     dimensions |-> 0, adaptive |-> FALSE,
     activeDecoder |-> "Auto", videoParameters |-> NoVideoParameters,
     lastError |-> "", outputWidth |-> 0, outputHeight |-> 0,
     activeWidth |-> 0, activeHeight |-> 0, lookBehind |-> 0, lookAhead |-> 0]

\* TbcReader::close()
close(rd) ==
    IF rd.isOpen
    THEN [rd EXCEPT !.sourceVideo = FALSE, !.metadata = NoMetadata, !.isOpen = FALSE]
    ELSE rd

\* A destruction that releases nothing.
Leaked(rd) == rd

\* TbcReader::~TbcReader(): close(), then the members are destroyed, which
\* closes the sample file, frees the metadata and frees the engines.
Destroyed(rd) ==
    [close(rd) EXCEPT !.sourceVideo = FALSE, !.metadata = NoMetadata, !.engines = {}]

\* A default that takes the Transform PAL 2D filter for a PAL carrier.
AutoDecoderTransform(system) == IF system = "NTSC" THEN "Ntsc2D" ELSE "Transform2D"

\* The decoder chosen for Auto from the colour carrier of the video system.
AutoDecoder(system) == IF system = "NTSC" THEN "Ntsc2D" ELSE "Pal2D"

\* A validation that keeps whatever was requested.
RequestedDecoder(decoder, system) == decoder

\* The decoder after the validation switch of configureDecoder.
ValidatedDecoder(decoder, system) ==
    LET isNtscColorCarrier == (system = "NTSC")
    IN  IF decoder \in NtscDecoders
        THEN (IF ~isNtscColorCarrier THEN "Pal2D" ELSE decoder)
        ELSE IF decoder \in PalDecoders
        THEN (IF isNtscColorCarrier THEN "Ntsc2D" ELSE decoder)
        ELSE decoder

\* Comb::Configuration and PalColour::Configuration look-behind / look-ahead
\* (ld-decode): only the three-dimensional filters look at other frames.
CombLookBehind(dimensions) == IF dimensions = 3 THEN 1 ELSE 0
CombLookAhead(dimensions) == IF dimensions = 3 THEN 1 ELSE 0
PalLookBehind(filter) == IF filter = "transform3DFilter" THEN 2 ELSE 0
PalLookAhead(filter) == IF filter = "transform3DFilter" THEN 4 ELSE 0

\* TbcReader::configureDecoder(): the reader with its engine configured, and
\* whether it succeeded.
configureDecoder(rd) ==
    LET chosen == IF rd.config.decoder = "Auto"
                  THEN AutoDecoder(rd.videoParameters.system)
                  ELSE rd.config.decoder
        decoder == ValidatedDecoder(chosen, rd.videoParameters.system)
        r1 == [rd EXCEPT !.activeDecoder = decoder]
    IN  IF decoder \in NtscDecoders
        THEN LET dims == CASE decoder = "Ntsc1D" -> 1
                           [] decoder = "Ntsc2D" -> 2
                           [] OTHER -> 3
             IN [ok |-> TRUE,
                 rd |-> [r1 EXCEPT !.engines = @ \cup {"comb"},
                                   !.dimensions = dims,
                                   !.adaptive = (decoder = "Ntsc3D"),
                                   !.lookBehind = CombLookBehind(dims),
                                   !.lookAhead = CombLookAhead(dims)]]
        ELSE IF decoder \in PalDecoders
        THEN LET filter == CASE decoder = "Pal2D" -> "palColourFilter"
                             [] decoder = "Transform2D" -> "transform2DFilter"
                             [] OTHER -> "transform3DFilter"
             IN [ok |-> TRUE,
                 rd |-> [r1 EXCEPT !.engines = @ \cup {"pal"},
                                   !.chromaFilter = filter,
                                   !.lookBehind = PalLookBehind(filter),
                                   !.lookAhead = PalLookAhead(filter)]]
        ELSE IF decoder = "Mono"
        THEN [ok |-> TRUE,
              rd |-> [r1 EXCEPT !.engines = @ \cup {"mono"},
                                !.lookBehind = 0, !.lookAhead = 0]]
        ELSE [ok |-> FALSE,
              rd |-> [r1 EXCEPT !.lastError = "Failed to auto-select decoder"]]

\* a + b in a 32-bit int, for a, b >= 0. A sum above INT_MAX is a signed
\* overflow; the two's-complement targets the plugin is built for compute
\* the sum modulo 2^32.
IntAdd(a, b) ==
    IF a >= 0 /\ b > 2147483647 - a
    THEN (a - 2147483647 - 1) + (b - 2147483647 - 1)
    ELSE a + b

\* The rounding of open(): ((dim + pad - 1) / pad) * pad when pad > 0.
PaddedDimension(dim, paddingMultiple) ==
    IF paddingMultiple > 0
    THEN CDiv(IntAdd(dim, paddingMultiple - 1), paddingMultiple) * paddingMultiple
    ELSE dim

\* The candidate sidecar names for a source path whose extension is ext
\* (<<>>: none, <<"tbc">>: ".tbc"); completeBaseName drops the last extension.
BaseDb == <<"db">>
FullDb(ext) == ext \o <<"db">>
BaseJson == <<"json">>
FullJson(ext) == ext \o <<"json">>
BaseTbcJson == <<"tbc", "json">>

\* The .db path open() settles on before it looks at JSON.
DbPath(d, ext) == IF BaseDb \in DOMAIN d THEN BaseDb ELSE FullDb(ext)

\* A search that tries the full-path sidecar before the base-name one.
JsonPathFullFirst(d, ext) ==
    IF FullJson(ext) \in DOMAIN d THEN FullJson(ext)
    ELSE IF BaseJson \in DOMAIN d THEN BaseJson
    ELSE BaseTbcJson

\* The JSON path open() settles on (it may not exist).
JsonPath(d, ext) ==
    IF BaseJson \in DOMAIN d THEN BaseJson
    ELSE IF FullJson(ext) \in DOMAIN d THEN FullJson(ext)
    ELSE BaseTbcJson

\* Steps of open() after the metadata is read: the sample file, the decoder,
\* the geometry.
OpenAfterRead(rd, d, ext) ==
    LET r1 == [rd EXCEPT !.videoParameters = rd.metadata.videoParameters]
    IN  IF ~r1.videoParameters.isValid
        THEN [ok |-> FALSE,
              rd |-> [r1 EXCEPT !.lastError = "Invalid video parameters in metadata"]]
        ELSE IF ext \notin DOMAIN d
        THEN [ok |-> FALSE,
              rd |-> [r1 EXCEPT !.lastError = "Failed to open TBC file"]]
        ELSE
        LET r2 == [r1 EXCEPT !.sourceVideo = TRUE]
            c == configureDecoder(r2)
        IN  IF ~c.ok THEN [ok |-> FALSE, rd |-> c.rd]
            ELSE
            LET vp == c.rd.videoParameters
                aw == vp.activeVideoEnd - vp.activeVideoStart
                ah == vp.lastActiveFrameLine - vp.firstActiveFrameLine
                pad == c.rd.config.paddingMultiple
            IN [ok |-> TRUE,
                rd |-> [c.rd EXCEPT !.activeWidth = aw, !.activeHeight = ah,
                                    !.outputWidth = PaddedDimension(aw, pad),
                                    !.outputHeight = PaddedDimension(ah, pad),
                                    !.isOpen = TRUE]]

\* TbcReader::open(tbcPath, cfg) on disk d, for a source path with extension
\* ext: the reader, the disk it leaves, whether it succeeded and whether it
\* ran the JSON conversion (migrated: "no", or the step the conversion reached).
open(rd0, d, ext, cfg) ==
    LET rd == [close(rd0) EXCEPT !.config = cfg]
        dbPath == DbPath(d, ext)
        jsonPath == JsonPath(d, ext)
        needJson == dbPath \notin DOMAIN d
        conv == IF needJson /\ jsonPath \in DOMAIN d
                THEN convertJsonToSqlite(d, jsonPath, dbPath)
                ELSE [ok |-> TRUE, disk |-> d, step |-> "no"]
    IN  IF needJson /\ jsonPath \notin DOMAIN d
        THEN [ok |-> FALSE, disk |-> d, migrated |-> "no", dbPath |-> dbPath,
              rd |-> [rd EXCEPT !.lastError = "Could not find metadata file (.db or .json)"]]
        ELSE IF ~conv.ok
        THEN [ok |-> FALSE, disk |-> conv.disk, migrated |-> conv.step, dbPath |-> dbPath,
              rd |-> [rd EXCEPT !.lastError = "Failed to convert JSON metadata to SQLite"]]
        ELSE
        LET m == Sqlite3MetadataReaderRead(conv.disk[dbPath])
            r1 == [rd EXCEPT !.metadata = m.metadata]
        IN  IF ~m.ok
            THEN [ok |-> FALSE, disk |-> conv.disk, migrated |-> conv.step, dbPath |-> dbPath,
                  rd |-> [r1 EXCEPT !.lastError = "Failed to read metadata"]]
            ELSE LET o == OpenAfterRead(r1, conv.disk, ext)
                 IN [ok |-> o.ok, disk |-> conv.disk, migrated |-> conv.step,
                     dbPath |-> dbPath, rd |-> o.rd]

\* LdDecodeMetaData::getNumberOfFrames() for a capture that starts on a first
\* field: two fields to a frame.
getNumFrames(rd) == Len(rd.metadata.fields) \div 2

\* A frame rate taken from the colour carrier: 25 fps for PAL-M.
getFrameRateByCarrier(rd) ==
    IF rd.videoParameters.system = "NTSC"
    THEN [num |-> 30000, den |-> 1001]
    ELSE [num |-> 25, den |-> 1]

\* TbcReader::getFrameRate()
getFrameRate(rd) ==
    IF rd.videoParameters.system \in {"NTSC", "PAL_M"}
    THEN [num |-> 30000, den |-> 1001]
    ELSE [num |-> 25, den |-> 1]

isMonoDecoder(rd) == rd.activeDecoder = "Mono"

-----------------------------------------------------------------------------
(* analog4fsc.cpp: construction *)

\* The Configuration the constructor builds from the options.
SourceConfiguration(opts) ==
    [paddingMultiple |-> opts.paddingMultiple,
     reverseFields |-> opts.reverseFields,
     decoder |-> IF opts.decoder # "" THEN parseDecoderName(opts.decoder)
                 ELSE Configuration.decoder]

IsNTSC(rd) == rd.videoParameters.system \in {"NTSC", "PAL_M"}

\* A table that takes only NTSC, not PAL-M, for the NTSC family.
GetSARBySystem(rd) ==
    IF rd.videoParameters.system # "NTSC"
    THEN (IF rd.videoParameters.isWidescreen
          THEN [num |-> 865, den |-> 779] ELSE [num |-> 259, den |-> 311])
    ELSE (IF rd.videoParameters.isWidescreen
          THEN [num |-> 25, den |-> 22] ELSE [num |-> 352, den |-> 413])

GetSAR(rd) ==
    IF ~IsNTSC(rd)
    THEN (IF rd.videoParameters.isWidescreen
          THEN [num |-> 865, den |-> 779] ELSE [num |-> 259, den |-> 311])
    ELSE (IF rd.videoParameters.isWidescreen
          THEN [num |-> 25, den |-> 22] ELSE [num |-> 352, den |-> 413])

\* A colour family that follows the decoder alone.
ColorFamilyOfDecoder(rd, hasChromaReader) == IF isMonoDecoder(rd) THEN 1 ELSE 3

\* properties.VF.ColorFamily: 1 is Gray, 3 is YUV.
ColorFamily(rd, hasChromaReader) ==
    IF isMonoDecoder(rd) /\ ~hasChromaReader THEN 1 ELSE 3

\* VSAnalog4fscSource::initProperties()
initProperties(rd, hasChromaReader) ==
    LET fps == getFrameRate(rd)
    IN [ColorFamily |-> ColorFamily(rd, hasChromaReader),
        SampleType |-> 1, BitsPerSample |-> 32, SubSamplingW |-> 0, SubSamplingH |-> 0,
        Width |-> rd.outputWidth, Height |-> rd.outputHeight,
        SSModWidth |-> rd.outputWidth, SSModHeight |-> rd.outputHeight,
        NumFrames |-> getNumFrames(rd),
        FPS |-> fps, TimeBase |-> [Num |-> fps.den, Den |-> fps.num],
        Duration |-> getNumFrames(rd)]

NoProperties == initProperties(TbcReader, FALSE)

\* A constructor that validates nothing.
NoDualSourceError(luma, chroma) == ""

\* The dual-source validation of the constructor: "" when the two readers agree.
DualSourceError(luma, chroma) ==
    IF luma.outputWidth # chroma.outputWidth \/ luma.outputHeight # chroma.outputHeight
    THEN "Luma and chroma TBC files have mismatched dimensions"
    ELSE IF getNumFrames(luma) # getNumFrames(chroma)
    THEN "Luma and chroma TBC files have different frame counts"
    ELSE ""

\* The constructor's outcome once both open() calls have returned.
Constructed(o1, o2, hasChroma, error) ==
    [error |-> error,
     disk |-> [luma |-> o1.disk, chroma |-> o2.disk],
     migrated |-> [luma |-> o1.migrated, chroma |-> o2.migrated],
     dbPath |-> [luma |-> o1.dbPath, chroma |-> o2.dbPath],
     opened |-> [luma |-> o1.ok, chroma |-> o1.ok /\ hasChroma /\ o2.ok],
     reader |-> IF error = ""
                THEN [luma |-> o1.rd, chroma |-> o2.rd]
                ELSE [luma |-> Destroyed(o1.rd), chroma |-> Destroyed(o2.rd)],
     hasChromaReader |-> error = "" /\ hasChroma,
     properties |-> IF error = "" THEN initProperties(o1.rd, hasChroma)
                    ELSE NoProperties]

\* The exception the constructor throws, "" when it throws none.
ConstructorError(o1, o2, hasChroma) ==
    IF ~o1.ok THEN "Failed to open TBC file"
    ELSE IF ~o2.ok THEN "Failed to open chroma TBC file"
    ELSE IF hasChroma THEN DualSourceError(o1.rd, o2.rd)
    ELSE ""

NotOpened(d) ==
    [ok |-> TRUE, disk |-> d, migrated |-> "no", dbPath |-> <<>>, rd |-> TbcReader]

\* The chroma reader is opened only after the luma reader opened.
OpenChroma(o1, dk, hasChroma, chromaExt, config) ==
    IF o1.ok /\ hasChroma THEN open(TbcReader, dk.chroma, chromaExt, config)
    ELSE NotOpened(dk.chroma)

ConstructWith(o1, o2, hasChroma) ==
    Constructed(o1, o2, hasChroma, ConstructorError(o1, o2, hasChroma))

ConstructAfterLuma(o1, dk, hasChroma, chromaExt, config) ==
    ConstructWith(o1, OpenChroma(o1, dk, hasChroma, chromaExt, config), hasChroma)

ConstructConfigured(dk, sourceExt, hasChroma, chromaExt, config) ==
    ConstructAfterLuma(open(TbcReader, dk.luma, sourceExt, config),
                       dk, hasChroma, chromaExt, config)

\* VSAnalog4fscSource::VSAnalog4fscSource(sourcePath, chromaSourcePath, opts)
\* on disks dk. error is "" when the source is constructed; when it throws, the
\* members are destroyed (~TbcReader closes each reader).
NewSource(dk, sourceExt, hasChroma, chromaExt, opts) ==
    ConstructConfigured(dk, sourceExt, hasChroma, chromaExt, SourceConfiguration(opts))

-----------------------------------------------------------------------------
(* plugin.cpp: Create4fscSource, VSAnalog4fscSourceFree *)

\* An optional argument of the VSMap: <<>> when absent, <<v>> when given.
ArgOr(arg, default) == IF arg = <<>> THEN default ELSE arg[1]

\* A rational left as it was given.
unreducedRational(num, den) == [num |-> num, den |-> den]

\* vsh::reduceRational
reduceRational(num, den) ==
    LET g == Gcd(Abs(num), Abs(den))
    IN IF g = 0 THEN [num |-> num, den |-> den]
       ELSE [num |-> num \div g, den |-> den \div g]

NoFilter ==
    [exists |-> FALSE, hasChroma |-> FALSE, properties |-> NoProperties,
     VI |-> [width |-> 0, height |-> 0, numFrames |-> 0, fpsNum |-> 0, fpsDen |-> 0,
             format |-> "none"],
     isMono |-> FALSE, isNTSC |-> FALSE, firstActiveFrameLine |-> 0,
     sarNum |-> 1, sarDen |-> 1]

\* The frame count written when fpsnum overrides the frame rate:
\* max(1, int(Duration * fpsNum * TimeBase / fpsDen + 0.5)).
OverrideNumFrames(vp, fpsNum, fpsDen) ==
    LET a == vp.Duration * fpsNum * vp.TimeBase.Num
        b == vp.TimeBase.Den * fpsDen
    IN Max(1, (2 * a + b) \div (2 * b))

\* The body of Create4fscSource for the argument map In on disks dk.
\* Create4fscSource returning through vsapi->mapSetError(Out, msg): nothing opened.
CreateFailed(dk, msg) ==
    [error |-> msg, disk |-> dk, migrated |-> [luma |-> "no", chroma |-> "no"],
     dbPath |-> [luma |-> <<>>, chroma |-> <<>>],
     opened |-> [luma |-> FALSE, chroma |-> FALSE],
     reader |-> [luma |-> TbcReader, chroma |-> TbcReader],
     D |-> NoFilter]

\* The VSAnalog4fscOptions filled from the arguments.
CreateOptions(In) ==
    [paddingMultiple |-> ArgOr(In.padding_multiple, 8),
     reverseFields |-> ArgOr(In.reverse_fields, 0) # 0,
     decoder |-> ArgOr(In.decoder, "")]

\* The VSVideoInfo of the filter.
VideoInfo(VP, FPSNum, fps, over) ==
    [width |-> VP.SSModWidth, height |-> VP.SSModHeight,
     numFrames |-> IF FPSNum > 0 THEN OverrideNumFrames(VP, over.num, over.den)
                   ELSE VP.NumFrames,
     fpsNum |-> IF FPSNum > 0 THEN over.num ELSE fps.num,
     fpsDen |-> IF FPSNum > 0 THEN over.den ELSE fps.den,
     format |-> IF VP.ColorFamily = 1 THEN "GRAYS" ELSE "YUV444PS"]

\* The DecodeConfig the filter keeps.
DecodeConfig(V, VP, sar, FPSNum, FPSDen) ==
    [exists |-> TRUE, hasChroma |-> V.hasChromaReader, properties |-> VP,
     VI |-> VideoInfo(VP, FPSNum, reduceRational(VP.FPS.num, VP.FPS.den),
                      reduceRational(FPSNum, FPSDen)),
     isMono |-> VP.ColorFamily = 1, isNTSC |-> IsNTSC(V.reader.luma),
     firstActiveFrameLine |-> V.reader.luma.videoParameters.firstActiveFrameLine,
     sarNum |-> sar.num, sarDen |-> sar.den]

\* The message of the exception Create4fscSource catches, "" when none.
CreateError(V) ==
    IF V.error # "" THEN V.error
    ELSE IF V.properties.SSModWidth = 0 \/ V.properties.SSModHeight = 0
    THEN "Invalid video dimensions"
    ELSE ""

CreateOutcome(V, error, FPSNum, FPSDen) ==
    [error |-> error, disk |-> V.disk, migrated |-> V.migrated,
     dbPath |-> V.dbPath, opened |-> V.opened,
     reader |-> IF error = "" THEN V.reader
                ELSE [r \in Roles |-> Destroyed(V.reader[r])],
     D |-> IF error # "" THEN NoFilter
           ELSE DecodeConfig(V, V.properties, GetSAR(V.reader.luma), FPSNum, FPSDen)]

CreateWith(V, FPSNum, FPSDen) == CreateOutcome(V, CreateError(V), FPSNum, FPSDen)

CreateResult(dk, In) ==
    IF In.source = <<>>
    THEN CreateFailed(dk, "composite_or_luma_source path is required")
    ELSE IF In.pr_source # <<>>
    THEN CreateFailed(dk, "component video mode (3 separate sources) is not yet supported")
    ELSE IF ArgOr(In.fpsden, 1) < 1
    THEN CreateFailed(dk, "FPS denominator needs to be 1 or greater")
    ELSE CreateWith(NewSource(dk, In.source[1], In.chroma # <<>>,
                              ArgOr(In.chroma, <<>>), CreateOptions(In)),
                    ArgOr(In.fpsnum, -1), ArgOr(In.fpsden, 1))

NoEngine == [busy |-> {}, frameNumber |-> -1]
NoOut == [status |-> "none", frameNumber |-> -1, planes |-> {},
          luma |-> -1, chroma |-> -1]
\* The frame the host got from its last request, before any request.
NoFrame == [status |-> "none", n |-> -1, planes |-> <<>>, props |-> <<>>]

\* No QCoreApplication: instance() is null (0) and the static unique_ptr
\* qtApp owns nothing (0). Applications constructed by the plugin are
\* numbered 1, 2, ...; -1 is an application of the host.
NoApp == [instance |-> 0, owned |-> 0, constructed |-> 0, destroyed |-> {}]

\* qtApp = std::make_unique<QCoreApplication>(...): the application is
\* constructed and becomes instance(); the assignment destroys the one the
\* pointer owned before, if any.
MakeApp(q) ==
    [instance |-> q.constructed + 1, owned |-> q.constructed + 1,
     constructed |-> q.constructed + 1,
     destroyed |-> q.destroyed \cup (IF q.owned # 0 THEN {q.owned} ELSE {})]

\* ensureQtInitialized() run without interruption.
ensureQtInitialized(q) == IF q.instance = 0 THEN MakeApp(q) ELSE q

\* Create4fscSource(In, Out, ...): one call of decode_4fsc_video.
Create4fscSource(In) ==
    /\ ~D.exists
    /\ \A t \in Threads : pc[t] = "idle"
    /\ qtApp' = ensureQtInitialized(qtApp)
    /\ LET c == CreateResult(disk, In)
       IN /\ disk' = c.disk
          /\ reader' = c.reader
          /\ D' = c.D
          /\ lastCall' = [made |-> TRUE, error |-> c.error, migrated |-> c.migrated,
                          dbPath |-> c.dbPath, opened |-> c.opened, In |-> In,
                          before |-> disk]
    /\ engine' = [r \in Roles |-> NoEngine]
    /\ frame' = NoFrame
    /\ out' = [t \in Threads |-> NoOut]
    /\ UNCHANGED <<decodeMutex, pc, req>>

\* VSAnalog4fscSourceFree: delete the DecodeConfig once no request is running.
VSAnalog4fscSourceFree ==
    /\ D.exists
    /\ \A t \in Threads : pc[t] = "idle"
    /\ D' = NoFilter
    /\ reader' = [r \in Roles |-> Destroyed(reader[r])]
    /\ UNCHANGED <<disk, lastCall, decodeMutex, pc, req, engine, out, frame, qtApp>>

\* The argument map of a call that passes nothing.
NoIn ==
    [source |-> <<>>, chroma |-> <<>>, pr_source |-> <<>>, decoder |-> <<>>,
     padding_multiple |-> <<>>, reverse_fields |-> <<>>,
     fpsnum |-> <<>>, fpsden |-> <<>>]

NoCall ==
    [made |-> FALSE, error |-> "", migrated |-> [luma |-> "no", chroma |-> "no"],
     dbPath |-> [luma |-> <<>>, chroma |-> <<>>],
     opened |-> [luma |-> FALSE, chroma |-> FALSE],
     In |-> NoIn]

\* Everything but the disk, before the first call.
InitProgram ==
    /\ reader = [r \in Roles |-> TbcReader]
    /\ D = NoFilter
    /\ lastCall = [made |-> FALSE, error |-> "", migrated |-> NoCall.migrated,
                   dbPath |-> NoCall.dbPath, opened |-> NoCall.opened,
                   In |-> NoIn, before |-> disk]
    /\ decodeMutex = {}
    /\ pc = [t \in Threads |-> "idle"]
    /\ req = [t \in Threads |-> -1]
    /\ engine = [r \in Roles |-> NoEngine]
    /\ out = [t \in Threads |-> NoOut]
    /\ frame = NoFrame
    /\ qtApp = NoApp

-----------------------------------------------------------------------------
(* The files the model puts on disk *)

\* The videoParameters objects of the JSON sidecars.
JsonVideoParameters ==
    {[system |-> "NTSC", fieldWidth |-> 8, fieldHeight |-> 263,
      activeVideoStart |-> 1, activeVideoEnd |-> 4,
      white16bIre |-> 48, black16bIre |-> 16, isWidescreen |-> FALSE],
     [system |-> "PAL", fieldWidth |-> 9, fieldHeight |-> 313,
      activeVideoStart |-> 2, activeVideoEnd |-> 7,
      white16bIre |-> 50, black16bIre |-> 10, isWidescreen |-> TRUE],
     [system |-> "SECAM", fieldWidth |-> 9, fieldHeight |-> 313,
      activeVideoStart |-> 2, activeVideoEnd |-> 7,
      white16bIre |-> 50, black16bIre |-> 10, isWidescreen |-> FALSE]}

\* The i-th element of a fields array whose seqNo values follow a pattern:
\* counted from 0, counted from 1 (as ld-decode writes them), descending,
\* one value repeated, or no seqNo key at all.
JsonField(pattern, n, i) ==
    LET rest == [isFirstField |-> (i % 2 = 1), audioSamples |-> IF i = 1 THEN 800 ELSE 0]
        seq(v) == [k \in {"seqNo"} \cup DOMAIN rest |-> IF k = "seqNo" THEN v ELSE rest[k]]
    IN CASE pattern = "from0" -> seq(i - 1)
         [] pattern = "from1" -> seq(i)
         [] pattern = "descending" -> seq(n - i)
         [] pattern = "repeated" -> seq(IF i = n THEN 0 ELSE i - 1)
         [] OTHER -> rest

SeqNoPatterns == {"from0", "from1", "descending", "repeated", "absent"}

JsonFields(pattern, n) == [i \in 1..n |-> JsonField(pattern, n, i)]

JsonFile(root) == [kind |-> "json", wellFormed |-> TRUE, root |-> root]

\* The JSON sidecars: with and without a videoParameters object, every
\* pattern of seqNo and every length up to MaxFields, and one that does not parse.
JsonFiles ==
    {JsonFile([videoParameters |-> v, fields |-> JsonFields(p, n)]) :
        v \in JsonVideoParameters, p \in SeqNoPatterns, n \in 0..MaxFields}
    \cup {JsonFile([fields |-> JsonFields(p, n)]) : p \in {"from0"}, n \in {0, 2}}
    \cup {JsonFile([videoParameters |-> v]) : v \in JsonVideoParameters}
    \cup {[kind |-> "json", wellFormed |-> FALSE, root |-> <<>>]}

\* A store as ld-decode's own tools write it: field ids 0..n-1.
Store(system, start, end, widescreen, n) ==
    [kind |-> "db",
     capture |-> <<[system |-> system, field_width |-> end + 2,
                    field_height |-> IF system = "PAL" THEN 313 ELSE 263,
                    active_video_start |-> start, active_video_end |-> end,
                    white_16b_ire |-> 48, black_16b_ire |-> 16,
                    is_widescreen |-> IF widescreen THEN 1 ELSE 0,
                    number_of_sequential_fields |-> n]>>,
     fields |-> [i \in 1..n |->
                    [field_id |-> i - 1, is_first_field |-> i % 2,
                     audio_samples |-> <<>>, decode_faults |-> <<>>,
                     disk_loc |-> <<>>, efm_t_values |-> <<>>, file_loc |-> <<>>]]]

SampleFile == [kind |-> "tbc"]

\* The extensions of the source paths the calls name: "capture", "capture.tbc",
\* "capture.bin".
Exts == {<<>>, <<"tbc">>, <<"bin">>}

DbNames == {BaseDb} \cup {FullDb(e) : e \in Exts}
JsonNames == {BaseJson, BaseTbcJson} \cup {FullJson(e) : e \in Exts}

\* A disk from a choice of content per name; NoFile leaves the name out.
MkDisk(choice) == [n \in {m \in DOMAIN choice : choice[m] # <<>>} |-> choice[n][1]]

Present(file) == <<file>>

NoFile == <<>>

\* Disks where stores and sidecars compete: every way of leaving out, or
\* placing one of two stores / two sidecars at, each candidate name.
StoreA == Store("NTSC", 1, 4, FALSE, 4)
StoreB == Store("PAL", 2, 7, TRUE, 2)
JsonA == JsonFile([videoParameters |->
                      [system |-> "PAL", activeVideoStart |-> 0, activeVideoEnd |-> 5,
                       white16bIre |-> 40, black16bIre |-> 8],
                   fields |-> JsonFields("from0", 4)])
JsonB == JsonFile([videoParameters |->
                      [system |-> "NTSC", activeVideoStart |-> 3, activeVideoEnd |-> 5,
                       white16bIre |-> 44, black16bIre |-> 4],
                   fields |-> JsonFields("from0", 2)])

CompetingDisks ==
    {MkDisk(dbs @@ jsons @@ [e \in Exts |-> Present(SampleFile)]) :
        dbs \in [DbNames -> {NoFile, Present(StoreA), Present(StoreB)}],
        jsons \in [JsonNames -> {NoFile, Present(JsonA), Present(JsonB)}]}

\* Disks with no store and a single sidecar, at any of its candidate names;
\* the sample files exist or not.
SidecarDisks ==
    {MkDisk((n :> Present(j)) @@ [e \in Exts |-> tbc]) :
        n \in JsonNames, j \in JsonFiles, tbc \in {NoFile, Present(SampleFile)}}

\* The chroma source of the calls that name none.
PlainDisk == MkDisk((BaseDb :> Present(StoreA)) @@ [e \in Exts |-> Present(SampleFile)])

-----------------------------------------------------------------------------
(* Spec: opening a single source, with every arrangement of sidecars *)

Init ==
    /\ disk \in [luma : CompetingDisks \cup SidecarDisks, chroma : {PlainDisk}]
    /\ InitProgram

\* The calls: decode_4fsc_video("capture"), ("capture.tbc") and ("capture.bin").
OpenCalls == {[NoIn EXCEPT !.source = <<e>>] : e \in Exts}

Next ==
    \/ \E In \in OpenCalls : Create4fscSource(In)
    \/ VSAnalog4fscSourceFree

Spec == Init /\ [][Next]_vars

-----------------------------------------------------------------------------
(* Sidecar resolution and JSON migration (checked under Spec) *)

\* What the last call found on the luma disk, and what it left.
Before == lastCall.before.luma
After == disk.luma
CallExt == lastCall.In.source[1]
Opening == lastCall.made /\ lastCall.In.source # <<>>

\* The first of the three JSON candidates that existed before the call.
JsonCandidates(ext) == <<BaseJson, FullJson(ext), BaseTbcJson>>
FirstJson(d, ext) ==
    LET c == JsonCandidates(ext)
        present == {i \in 1..3 : c[i] \in DOMAIN d}
    IN c[CHOOSE i \in present : \A j \in present : i <= j]
SomeJson(d, ext) == \E i \in 1..3 : JsonCandidates(ext)[i] \in DOMAIN d

\* The store a conversion of sidecar j writes at path target.
Synthesized(d, j, target) == convertJsonToSqlite(d, j, target).disk[target]

\* The parts of the resolution order that do not depend on where the store
\* is synthesized: an existing store is used as it is, base name first; with
\* no store, the first existing JSON candidate is converted; with neither,
\* the open fails and the disk is left alone.
ResolutionOrder(target) ==
    Opening =>
        /\ BaseDb \in DOMAIN Before =>
              /\ lastCall.dbPath.luma = BaseDb
              /\ lastCall.migrated.luma = "no" /\ After = Before
        /\ BaseDb \notin DOMAIN Before /\ FullDb(CallExt) \in DOMAIN Before =>
              /\ lastCall.dbPath.luma = FullDb(CallExt)
              /\ lastCall.migrated.luma = "no" /\ After = Before
        /\ D.exists /\ lastCall.migrated.luma = "no" =>
              reader.luma.metadata =
                  Sqlite3MetadataReaderRead(Before[lastCall.dbPath.luma]).metadata
        /\ BaseDb \notin DOMAIN Before /\ FullDb(CallExt) \notin DOMAIN Before =>
              IF SomeJson(Before, CallExt)
              THEN /\ lastCall.migrated.luma # "no"
                   /\ lastCall.migrated.luma = "commit" =>
                         /\ target \in DOMAIN After
                         /\ After[target] =
                               Synthesized(Before, FirstJson(Before, CallExt), target)
                         /\ D.exists =>
                               reader.luma.metadata =
                                   Sqlite3MetadataReaderRead(After[target]).metadata
              ELSE /\ lastCall.migrated.luma = "no" /\ ~lastCall.opened.luma
                   /\ After = Before

\* C8 as amended: on open of source path P the module looks for
\* base(P)+".db", then P+".db", and uses the first that exists directly;
\* if neither exists it takes the first existing of base(P)+".json",
\* P+".json", base(P)+".tbc.json" and synthesizes the store at P+".db", the
\* second .db candidate, which it then opens; base(P)+".db" is not created
\* unless P has no extension.
C8_SidecarResolutionOrder ==
    /\ ResolutionOrder(FullDb(CallExt))
    /\ Opening /\ lastCall.migrated.luma # "no" /\ CallExt # <<>> =>
          BaseDb \notin DOMAIN After

\* C8 as the specification states it: the same order, with the store
\* synthesized at base(P)+".db".
C8_SynthesizedAtBaseDb == ResolutionOrder(BaseDb)

\* A call that found no store and two different JSON candidates, converted
\* the first and opened the result.
C8_Witness ==
    /\ Opening /\ D.exists /\ lastCall.migrated.luma = "commit"
    /\ CallExt = <<"bin">>
    /\ BaseJson \notin DOMAIN Before
    /\ {FullJson(CallExt), BaseTbcJson} \subseteq DOMAIN Before
    /\ Before[FullJson(CallExt)] # Before[BaseTbcJson]
    /\ After[FullDb(CallExt)] = Synthesized(Before, FullJson(CallExt), FullDb(CallExt))

\* The sidecar the last call converted, and the path it converted it to.
MigratedJson == Before[FirstJson(Before, CallExt)]
MigrationTarget == lastCall.dbPath.luma
Migrating == Opening /\ lastCall.migrated.luma # "no"

JsonFieldCount(doc) ==
    IF doc.wellFormed /\ Has(doc.root, "fields") THEN Len(doc.root.fields) ELSE 0

\* A store holding its capture row and one field row per JSON field entry.
FullyPopulated(store, doc) ==
    /\ store.kind = "db"
    /\ Len(store.capture) = 1
    /\ Len(store.fields) = JsonFieldCount(doc)

\* C9: if the insert of the capture record or of a field record fails during
\* the JSON -> store synthesis, the migration reports failure and no partial
\* store is left on disk at the target path: the path holds nothing, or a
\* fully populated store.
C9_NoPartialStore ==
    Migrating /\ lastCall.migrated.luma \in {"capture", "field"} =>
        /\ ~lastCall.opened.luma /\ lastCall.error # ""
        /\ \/ MigrationTarget \notin DOMAIN After
           \/ FullyPopulated(After[MigrationTarget], MigratedJson)

\* A migration whose capture or field insert failed and was rolled back: the
\* target path, which held nothing before, now holds a store with the schema
\* and no row.
C9_Witness ==
    /\ Migrating /\ lastCall.migrated.luma \in {"capture", "field"}
    /\ ~lastCall.opened.luma
    /\ MigrationTarget \notin DOMAIN Before
    /\ MigrationTarget \in DOMAIN After
    /\ After[MigrationTarget] = createSchema

\* What reading the synthesized store back yields.
ReadBack == Sqlite3MetadataReaderRead(After[MigrationTarget])

RoundTripKeys ==
    {"system", "fieldWidth", "fieldHeight", "activeVideoStart", "activeVideoEnd",
     "white16bIre", "black16bIre"}

\* C10: for a JSON sidecar with N >= 1 field elements that migrates
\* successfully, reading the store back yields exactly N field records with
\* sequence numbers 1..N contiguous and in order, and video parameters
\* (system, geometry, calibration) equal to the values of the JSON.
C10_RoundTrip ==
    Migrating /\ lastCall.migrated.luma = "commit"
              /\ JsonFieldCount(MigratedJson) >= 1 =>
        /\ ReadBack.ok
        /\ Len(ReadBack.metadata.fields) = JsonFieldCount(MigratedJson)
        /\ \A i \in 1..Len(ReadBack.metadata.fields) :
              ReadBack.metadata.fields[i].seqNo = i
        /\ Has(MigratedJson.root, "videoParameters") =>
              \A k \in RoundTripKeys :
                  Has(MigratedJson.root.videoParameters, k) =>
                      ReadBack.metadata.videoParameters[k] =
                          MigratedJson.root.videoParameters[k]

\* A sidecar whose seqNo values are 1..N, as ld-decode writes them, migrated
\* and was opened; the records read back are numbered 2..N+1.
C10_Witness ==
    /\ Migrating /\ lastCall.migrated.luma = "commit" /\ D.exists
    /\ JsonFieldCount(MigratedJson) = MaxFields
    /\ \A i \in 1..MaxFields : MigratedJson.root.fields[i].seqNo = i
    /\ \A i \in 1..MaxFields : reader.luma.metadata.fields[i].seqNo = i + 1

-----------------------------------------------------------------------------
(* SpecSelect: opening one or two sources that have their stores, with every
   decoder name and padding multiple *)

Systems == {"NTSC", "PAL", "PAL_M"}

\* activeVideoStart / activeVideoEnd of the stores: active widths 758 and 760.
Geometries == {<<134, 892>>, <<134, 894>>}

SelectStores ==
    {Store(sys, g[1], g[2], FALSE, n) :
        sys \in Systems, g \in Geometries, n \in {2, MaxFields}}

ChromaStores == {st \in SelectStores : st.capture[1].system # "PAL_M"}

StoreDisk(store) ==
    MkDisk((BaseDb :> Present(store)) @@ [e \in Exts |-> Present(SampleFile)])

InitSelect ==
    /\ disk \in [luma : {StoreDisk(st) : st \in SelectStores},
                 chroma : {StoreDisk(st) : st \in ChromaStores}]
    /\ InitProgram

\* The decoder argument: absent, empty, every name of the README, names
\* written with capitals and names that are none of them.
DecoderArgs ==
    {<<>>} \cup {<<n>> : n \in {"", "auto", "mono", "ntsc1d", "ntsc2d", "ntsc3d",
                                "ntsc3dnoadapt", "pal2d", "transform2d",
                                "transform3d", "PAL2D", "Mono", "NTSC3D",
                                "Transform3D", "vhs", "pal", "ntsc"}}

\* The padding_multiple argument: absent, negative, zero, small, the default,
\* and one within 500 of INT_MAX.
PaddingArgs ==
    {<<>>} \cup {<<m>> : m \in (-2..MaxPad) \cup {8, 2147483148}}

\* The calls: one or two sources, with either a decoder or a padding multiple.
SelectCalls ==
    {[NoIn EXCEPT !.source = <<<<"tbc">>>>, !.chroma = c, !.decoder = d] :
        c \in {<<>>, <<<<"tbc">>>>}, d \in DecoderArgs}
    \cup {[NoIn EXCEPT !.source = <<<<"tbc">>>>, !.chroma = c, !.padding_multiple = m] :
        c \in {<<>>, <<<<"tbc">>>>}, m \in PaddingArgs}

\* The stores never change here, so a second call would repeat the first:
\* each behaviour makes one call.
NextSelect ==
    \/ \E In \in SelectCalls : ~lastCall.made /\ Create4fscSource(In)
    \/ VSAnalog4fscSourceFree

SpecSelect == InitSelect /\ [][NextSelect]_vars

-----------------------------------------------------------------------------
(* Decoder selection (checked under SpecSelect) *)

\* The store each reader of the last call read, and the decoder name passed.
StoreOf(r) == lastCall.before[r][lastCall.dbPath[r]]
SystemOf(r) == StoreOf(r).capture[1].system
DecoderName == IF lastCall.In.decoder = <<>> THEN "" ELSE lastCall.In.decoder[1]

NtscNames == {"ntsc1d", "ntsc2d", "ntsc3d", "ntsc3dnoadapt", "NTSC3D"}
PalNames == {"pal2d", "PAL2D", "transform2d", "transform3d", "Transform3D"}
KnownNames == NtscNames \cup PalNames \cup {"mono", "Mono"}

\* The reader selected the two-dimensional non-adaptive comb filter.
IsNtsc2D(rd) ==
    /\ rd.activeDecoder = "Ntsc2D" /\ "comb" \in rd.engines
    /\ rd.dimensions = 2 /\ ~rd.adaptive

\* The reader selected the 2D PALcolour filter.
IsPal2D(rd) ==
    /\ rd.activeDecoder = "Pal2D" /\ "pal" \in rd.engines
    /\ rd.chromaFilter = "palColourFilter"

\* The reader selected the 2D Transform PAL frequency-domain filter.
IsTransform2D(rd) ==
    /\ rd.activeDecoder = "Transform2D" /\ "pal" \in rd.engines
    /\ rd.chromaFilter = "transform2DFilter"

\* The default engine of the carrier configureDecoder detects: the NTSC
\* carrier for system NTSC, the PAL carrier for PAL and PAL-M.
IsFamilyDefault(rd, system) ==
    IF system = "NTSC" THEN IsNtsc2D(rd) ELSE IsPal2D(rd)

\* C2: when the configuration names an NTSC engine and the carrier is PAL, or
\* names a PAL engine and the carrier is NTSC, open does not fail and the
\* engine selected is the default engine of the detected carrier; mono is
\* kept for every video system. The engine is that of the reader while the
\* source lives.
C2_DecoderFallback ==
    lastCall.made =>
        /\ \/ DecoderName \in NtscNames /\ SystemOf("luma") # "NTSC"
           \/ DecoderName \in PalNames /\ SystemOf("luma") = "NTSC"
           => /\ lastCall.opened.luma
              /\ D.exists => IsFamilyDefault(reader.luma, SystemOf("luma"))
        /\ DecoderName = "mono" =>
              /\ lastCall.opened.luma
              /\ D.exists => /\ reader.luma.activeDecoder = "Mono"
                             /\ reader.luma.engines = {"mono"}

\* decoder="pal2d" on an NTSC capture: the filter exists and decodes with the
\* 2D comb filter.
C2_Witness ==
    /\ lastCall.made /\ D.exists
    /\ DecoderName = "pal2d" /\ SystemOf("luma") = "NTSC"
    /\ IsNtsc2D(reader.luma) /\ reader.luma.engines = {"comb"}

\* C3 as amended: when the configuration requests auto (decoder absent, empty
\* or not a recognised name), the engine selected at open is the
\* two-dimensional non-adaptive comb filter for an NTSC capture and the 2D
\* PALcolour filter (pal2d), not the frequency-domain Transform filter, for a
\* PAL or PAL-M capture.
C3_AutoSelectsPal2D ==
    lastCall.made /\ DecoderName \notin KnownNames =>
        /\ lastCall.opened.luma
        /\ D.exists /\ SystemOf("luma") = "NTSC" => IsNtsc2D(reader.luma)
        /\ D.exists /\ SystemOf("luma") # "NTSC" =>
              IsPal2D(reader.luma) /\ ~IsTransform2D(reader.luma)

\* C3 as the specification states it: auto selects the two-dimensional
\* non-adaptive comb filter for NTSC and the 2D frequency-space filter for PAL.
C3_AutoSelectsFrequencyFilter ==
    lastCall.made /\ DecoderName \notin KnownNames =>
        /\ lastCall.opened.luma
        /\ D.exists /\ SystemOf("luma") = "NTSC" => IsNtsc2D(reader.luma)
        /\ D.exists /\ SystemOf("luma") # "NTSC" => IsTransform2D(reader.luma)

\* A PAL capture opened with no decoder argument decodes with PALcolour.
C3_Witness ==
    /\ lastCall.made /\ D.exists /\ lastCall.In.decoder = <<>>
    /\ SystemOf("luma") = "PAL"
    /\ reader.luma.chromaFilter = "palColourFilter"

-----------------------------------------------------------------------------
(* Output geometry (checked under SpecSelect) *)

\* The padding multiple the last call configured.
PaddingMultiple == ArgOr(lastCall.In.padding_multiple, 8)

\* ceil(a / m) * m for m # 0, in exact arithmetic.
CeilMultiple(a, m) ==
    IF m > 0 THEN (-((-a) \div m)) * m
    ELSE (-(a \div (-m))) * m

ActiveWidthOf(r) ==
    StoreOf(r).capture[1].active_video_end - StoreOf(r).capture[1].active_video_start

ActiveHeightOf(r) ==
    IF SystemOf(r) = "PAL"
    THEN PalLastActiveFrameLine - PalFirstActiveFrameLine
    ELSE NtscLastActiveFrameLine - NtscFirstActiveFrameLine

\* The padding law for one dimension.
PaddingLaw(active, output) ==
    /\ PaddingMultiple = 0 => output = active
    /\ PaddingMultiple # 0 => output = CeilMultiple(active, PaddingMultiple)
    /\ output >= active

\* C4: after a successful open, active width = activeVideoEnd -
\* activeVideoStart and active height = lastActiveFrameLine -
\* firstActiveFrameLine; with paddingMultiple 0 the output dimension equals
\* the active dimension, otherwise it is ceil(activeDim / paddingMultiple) *
\* paddingMultiple; and for every paddingMultiple outputDim >= activeDim.
C4_PaddingLaw ==
    lastCall.made /\ lastCall.opened.luma =>
        /\ reader.luma.activeWidth = ActiveWidthOf("luma")
        /\ reader.luma.activeHeight = ActiveHeightOf("luma")
        /\ PaddingLaw(reader.luma.activeWidth, reader.luma.outputWidth)
        /\ PaddingLaw(reader.luma.activeHeight, reader.luma.outputHeight)

\* A padding multiple within 500 of INT_MAX: the filter is created with an
\* output width below the active width.
C4_Witness ==
    /\ lastCall.made /\ D.exists
    /\ PaddingMultiple > 2147483647 - reader.luma.activeWidth
    /\ reader.luma.activeWidth = 758
    /\ D.VI.width < reader.luma.activeWidth

-----------------------------------------------------------------------------
(* Dual-source validation (checked under SpecSelect) *)

DualCall == lastCall.made /\ lastCall.In.chroma # <<>>

\* What each capture declares once opened: the width and height its reader
\* reports, and its number of frames.
DeclaredWidth(r) == reader[r].outputWidth
DeclaredHeight(r) == reader[r].outputHeight
DeclaredFrames(r) == Len(StoreOf(r).fields) \div 2

WidthDiffers == DeclaredWidth("luma") # DeclaredWidth("chroma")
HeightDiffers == DeclaredHeight("luma") # DeclaredHeight("chroma")
FramesDiffer == DeclaredFrames("luma") # DeclaredFrames("chroma")

DimensionMismatch == "Luma and chroma TBC files have mismatched dimensions"
FrameCountMismatch == "Luma and chroma TBC files have different frame counts"

-----------------------------------------------------------------------------
(* Frame requests, one step at a time: VSAnalog4fscSourceGetFrame,
   VSAnalog4fscSource::GetFrame, TbcReader::decodeFrame *)

\* std::mutex: free when no thread holds it.
AlwaysAvailable(mutex) == TRUE

MutexAvailable(mutex) == mutex = {}

\* A decodeFrame that hands any frame number to the engine.
decodeFrameUnchecked(rd, frameNumber) ==
    IF ~rd.isOpen THEN "TBC file not open"
    ELSE IF rd.activeDecoder = "Auto" THEN "Decoder not configured"
    ELSE ""

\* The early returns of decodeFrame: "" when the frame is handed to the engine.
decodeFrameError(rd, frameNumber) ==
    IF ~rd.isOpen THEN "TBC file not open"
    ELSE IF frameNumber < 0 \/ frameNumber >= getNumFrames(rd)
    THEN "Frame number out of range"
    ELSE IF rd.activeDecoder = "Auto" THEN "Decoder not configured"
    ELSE ""

EngineLabel(r) == IF r = "luma" THEN "lumaEngine" ELSE "chromaEngine"

Goto(t, label) == pc' = [pc EXCEPT ![t] = label]

\* The host calls the filter's getFrame callback for frame n on thread t
\* (arInitial): the destination frame is allocated.
Request(t, n) ==
    /\ D.exists /\ pc[t] = "idle"
    /\ req' = [req EXCEPT ![t] = n]
    /\ out' = [out EXCEPT ![t] = [NoOut EXCEPT !.status = "pending", !.frameNumber = n]]
    /\ Goto(t, "lock")
    /\ UNCHANGED <<disk, reader, D, lastCall, decodeMutex, engine, frame, qtApp>>

\* GetFrame: std::lock_guard<std::mutex> lock(decodeMutex).
Lock(t) ==
    /\ pc[t] = "lock"
    /\ MutexAvailable(decodeMutex)
    /\ decodeMutex' = decodeMutex \cup {t}
    /\ Goto(t, "luma")
    /\ UNCHANGED <<disk, reader, D, lastCall, req, engine, out, frame, qtApp>>

\* A decodeFrame whose early return leaves the mutex with the request.
DecodeBeginHolding(t, r) ==
    /\ pc[t] = r
    /\ LET e == decodeFrameError(reader[r], req[t])
       IN IF e # ""
          THEN /\ reader' = [reader EXCEPT ![r].lastError = e]
               /\ out' = [out EXCEPT ![t].status = "error"]
               /\ Goto(t, "idle")
               /\ UNCHANGED <<engine, decodeMutex>>
          ELSE /\ engine' = [engine EXCEPT ![r] =
                                [busy |-> @.busy \cup {t}, frameNumber |-> req[t]]]
               /\ Goto(t, EngineLabel(r))
               /\ UNCHANGED <<reader, out, decodeMutex>>
    /\ UNCHANGED <<disk, D, lastCall, req, frame, qtApp>>

\* decodeFrame of reader r up to the engine call: the checks, then the fields
\* of the frame are loaded and handed to the engine. On an early return
\* GetFrame returns false, the lock guard releases the mutex and the callback
\* frees the frame and sets the filter error.
DecodeBegin(t, r) ==
    /\ pc[t] = r
    /\ LET e == decodeFrameError(reader[r], req[t])
       IN IF e # ""
          THEN /\ reader' = [reader EXCEPT ![r].lastError = e]
               /\ out' = [out EXCEPT ![t].status = "error"]
               /\ decodeMutex' = decodeMutex \ {t}
               /\ Goto(t, "idle")
               /\ UNCHANGED engine
          ELSE /\ engine' = [engine EXCEPT ![r] =
                                [busy |-> @.busy \cup {t}, frameNumber |-> req[t]]]
               /\ Goto(t, EngineLabel(r))
               /\ UNCHANGED <<reader, out, decodeMutex>>
    /\ UNCHANGED <<disk, D, lastCall, req, frame, qtApp>>

\* A decode that gives the mutex up as soon as its reader's engine returns.
DecodeEndUnlocking(t, r) ==
    /\ pc[t] = EngineLabel(r)
    /\ out' = [out EXCEPT ![t][r] = engine[r].frameNumber]
    /\ engine' = [engine EXCEPT ![r].busy = @ \ {t}]
    /\ decodeMutex' = decodeMutex \ {t}
    /\ Goto(t, IF r = "luma" /\ D.hasChroma THEN "chroma" ELSE "convert")
    /\ UNCHANGED <<disk, reader, D, lastCall, req, frame, qtApp>>

\* The engine's decodeFrames returns: the ComponentFrame is the one of the
\* frame the engine holds at that moment.
DecodeEnd(t, r) ==
    /\ pc[t] = EngineLabel(r)
    /\ out' = [out EXCEPT ![t][r] = engine[r].frameNumber]
    /\ engine' = [engine EXCEPT ![r].busy = @ \ {t}]
    /\ Goto(t, IF r = "luma" /\ D.hasChroma THEN "chroma" ELSE "convert")
    /\ UNCHANGED <<disk, reader, D, lastCall, decodeMutex, req, frame, qtApp>>

\* convertToFloat writes the planes, GetFrame returns true and releases the
\* mutex, the callback sets the frame properties and returns the frame.
Convert(t) ==
    /\ pc[t] = "convert"
    /\ out' = [out EXCEPT ![t].status = "ok",
                          ![t].planes = IF D.isMono THEN {"Y"} ELSE {"Y", "U", "V"}]
    /\ decodeMutex' = decodeMutex \ {t}
    /\ Goto(t, "idle")
    /\ UNCHANGED <<disk, reader, D, lastCall, req, engine, frame, qtApp>>

-----------------------------------------------------------------------------
(* SpecFrames: concurrent frame requests on one filter *)

\* Frame numbers requested: one below and one above the frames of a store
\* with MaxFields fields.
FrameNumbers == -1..(MaxFields \div 2)

InitFrames ==
    /\ disk = [luma |-> StoreDisk(Store("NTSC", 1, 4, FALSE, MaxFields)),
               chroma |-> StoreDisk(Store("NTSC", 2, 5, FALSE, MaxFields))]
    /\ InitProgram

\* A composite source, and a luma source with a chroma source.
FrameCalls ==
    {[NoIn EXCEPT !.source = <<<<"tbc">>>>, !.chroma = c] :
        c \in {<<>>, <<<<"tbc">>>>}}

NextFrames ==
    \/ \E In \in FrameCalls : Create4fscSource(In)
    \/ VSAnalog4fscSourceFree
    \/ \E t \in Threads, n \in FrameNumbers : Request(t, n)
    \/ \E t \in Threads : Lock(t)
    \/ \E t \in Threads, r \in Roles : DecodeBegin(t, r)
    \/ \E t \in Threads, r \in Roles : DecodeEnd(t, r)
    \/ \E t \in Threads : Convert(t)

SpecFrames == InitFrames /\ [][NextFrames]_vars

\* The threads inside the decode path of GetFrame.
InDecodePath(t) ==
    pc[t] \in {"luma", "lumaEngine", "chroma", "chromaEngine", "convert"}

\* C1: for any number of concurrent frame requests on the same source, at
\* most one request is inside the decode path at any instant: the mutex is
\* held by exactly the request inside, a request that finds it held waits
\* outside, at most one request is inside an engine, and every frame
\* returned was decoded from the engine state of its own frame number.
C1_DecodeSerialized ==
    /\ Cardinality({t \in Threads : InDecodePath(t)}) <= 1
    /\ decodeMutex = {t \in Threads : InDecodePath(t)}
    /\ \A r \in Roles : engine[r].busy \subseteq decodeMutex
    /\ \A t \in Threads :
          out[t].status = "ok" =>
              /\ out[t].luma = out[t].frameNumber
              /\ D.hasChroma => out[t].chroma = out[t].frameNumber

\* One request is inside the chroma engine while another, for a different
\* frame, waits for the mutex.
C1_Witness ==
    \E t, u \in Threads :
        /\ t # u /\ pc[t] = "chromaEngine" /\ pc[u] = "lock"
        /\ req[t] # req[u] /\ req[u] \in 0..(MaxFields \div 2 - 1)
        /\ decodeMutex = {t}

-----------------------------------------------------------------------------
(* One frame request as a whole, with the samples it writes:
   VSAnalog4fscSourceGetFrame, GetFrame, decodeFrame, convertToFloat *)

\* The ComponentFrame decodeFrame hands back for frame frameNumber of reader
\* rd: which reader and frame it was decoded from, by which decoder.
ComponentFrame(rd, role, frameNumber) ==
    [role |-> role, frameNumber |-> frameNumber, decoder |-> rd.activeDecoder,
     black |-> rd.videoParameters.black16bIre]

\* The sample of component comp at (line, col) of a ComponentFrame. The
\* engines are ld-decode's; the model takes a fixed pattern that varies with
\* the frame, the line and the column, with no chroma from the mono decoder.
ComponentSample(cf, comp, line, col) ==
    IF comp = "Y" THEN cf.black + ((line + 3 * col + 7 * cf.frameNumber) % 33)
    ELSE IF cf.decoder = "Mono" THEN 0
    ELSE ((line + 2 * col + cf.frameNumber + (IF comp = "U" THEN 0 ELSE 3)) % 9) - 4

\* A sample of the destination frame: its value as a fraction, and the
\* ComponentFrame sample read to produce it (none for a literal).
Literal0 == [value |-> [num |-> 0, den |-> 1], read |-> <<>>]

SampleRead(cf, comp, line, col) ==
    <<[role |-> cf.role, frameNumber |-> cf.frameNumber, comp |-> comp,
       line |-> line, col |-> col]>>

\* (srcY[x] - yOffset) * yScale * yNorm with yScale = Y_SCALE / yRange and
\* yNorm = 1 / Y_SCALE, in exact arithmetic.
LumaSample(cf, line, col, yOffset, yRange) ==
    [value |-> [num |-> ComponentSample(cf, "Y", line, col) - yOffset, den |-> yRange],
     read |-> SampleRead(cf, "Y", line, col)]

\* srcU[x] * cbScale * cbNorm (and the same for V with crScale, crNorm): the
\* factor C_SCALE / ((1 - K) * k) cancels, leaving 1 / (2 * uvRange).
ChromaSample(cf, comp, line, col, uvRange) ==
    [value |-> [num |-> ComponentSample(cf, comp, line, col), den |-> 2 * uvRange],
     read |-> SampleRead(cf, comp, line, col)]

\* The Y plane convertToFloat writes: rows 0..height-1, columns 0..width-1.
LumaPlane(lumaFrame, width, height, activeWidth, activeHeight, firstActiveLine, activeVideoStart, yOffset, yRange) ==
    [y \in 0..(height - 1) |->
        [x \in 0..(width - 1) |->
            IF y < activeHeight /\ x < activeWidth
            THEN LumaSample(lumaFrame, firstActiveLine + y, activeVideoStart + x,
                            yOffset, yRange)
            ELSE Literal0]]

\* A conversion that reads the source for every sample of the plane.
ChromaPlaneUnpadded(uvSourceFrame, comp, width, height, activeWidth, activeHeight, uvFirstActiveLine, uvActiveVideoStart, uvRange) ==
    [y \in 0..(height - 1) |->
        [x \in 0..(width - 1) |->
            ChromaSample(uvSourceFrame, comp, uvFirstActiveLine + y,
                         uvActiveVideoStart + x, uvRange)]]

\* The U or V plane convertToFloat writes.
ChromaPlane(uvSourceFrame, comp, width, height, activeWidth, activeHeight, uvFirstActiveLine, uvActiveVideoStart, uvRange) ==
    [y \in 0..(height - 1) |->
        [x \in 0..(width - 1) |->
            IF y < activeHeight /\ x < activeWidth
            THEN ChromaSample(uvSourceFrame, comp, uvFirstActiveLine + y,
                              uvActiveVideoStart + x, uvRange)
            ELSE Literal0]]

\* The planes written, given the frames and the geometry read from the
\* readers: Y always, U and V unless uData is null.
WritePlanes(lumaFrame, uvSourceFrame, isMono, width, height, rd, uvrd, yOffset, yRange) ==
    LET Y == LumaPlane(lumaFrame, width, height, rd.activeWidth, rd.activeHeight,
                       rd.videoParameters.firstActiveFrameLine,
                       rd.videoParameters.activeVideoStart, yOffset, yRange)
        UV(comp) == ChromaPlane(uvSourceFrame, comp, width, height,
                                rd.activeWidth, rd.activeHeight,
                                uvrd.videoParameters.firstActiveFrameLine,
                                uvrd.videoParameters.activeVideoStart, yRange)
    IN IF isMono THEN [c \in {"Y"} |-> Y]
       ELSE [c \in {"Y", "U", "V"} |-> IF c = "Y" THEN Y ELSE UV(c)]

\* VSAnalog4fscSource::convertToFloat(lumaFrame, chromaFrame, yData, uData,
\* vData, ...): chromaFrames is <<>> for a null chromaFrame; isMono is
\* uData == nullptr; rds are the source's reader and chromaReader.
convertToFloat(lumaFrame, chromaFrames, isMono, properties, rds, hasChromaReader) ==
    WritePlanes(lumaFrame,
                IF chromaFrames # <<>> THEN chromaFrames[1] ELSE lumaFrame,
                isMono, properties.Width, properties.Height,
                rds.luma,
                IF chromaFrames # <<>> /\ hasChromaReader THEN rds.chroma ELSE rds.luma,
                rds.luma.videoParameters.black16bIre,
                rds.luma.videoParameters.white16bIre
                    - rds.luma.videoParameters.black16bIre)

\* The frame properties the callback sets.
\* Frame properties with the field order the other way round.
FramePropsInverted(config) ==
    [_Primaries |-> IF config.isNTSC THEN 6 ELSE 5,
     _Matrix |-> IF config.isNTSC THEN 6 ELSE 5,
     _Transfer |-> 1, _ColorRange |-> 1, _Range |-> 0,
     _FieldBased |-> IF config.firstActiveFrameLine % 2 = 1 THEN 2 ELSE 1,
     _SARNum |-> config.sarNum, _SARDen |-> config.sarDen]

FrameProps(config) ==
    [_Primaries |-> IF config.isNTSC THEN 6 ELSE 5,
     _Matrix |-> IF config.isNTSC THEN 6 ELSE 5,
     _Transfer |-> 1, _ColorRange |-> 1, _Range |-> 0,
     _FieldBased |-> IF config.firstActiveFrameLine % 2 = 1 THEN 1 ELSE 2,
     _SARNum |-> config.sarNum, _SARDen |-> config.sarDen]

\* The reader whose decodeFrame returned false in GetFrame, "" if none.
FailedReader(rds, hasChromaReader, n) ==
    IF decodeFrameError(rds.luma, n) # "" THEN "luma"
    ELSE IF hasChromaReader /\ decodeFrameError(rds.chroma, n) # "" THEN "chroma"
    ELSE ""

\* VSAnalog4fscSourceGetFrame(n, arInitial, ...) from allocation to return,
\* with no other request running.
VSAnalog4fscSourceGetFrame(n) ==
    /\ D.exists
    /\ \A t \in Threads : pc[t] = "idle"
    /\ D.VI.width > 0 /\ D.VI.height > 0
    /\ LET failed == FailedReader(reader, D.hasChroma, n)
       IN IF failed # ""
          THEN /\ reader' = [reader EXCEPT
                                ![failed].lastError = decodeFrameError(reader[failed], n)]
               /\ engine' = IF failed = "chroma"
                            THEN [engine EXCEPT !["luma"].frameNumber = n]
                            ELSE engine
               /\ frame' = [NoFrame EXCEPT !.status = "Failed to decode frame", !.n = n]
          ELSE /\ frame' =
                    [status |-> "ok", n |-> n,
                     planes |-> convertToFloat(
                         ComponentFrame(reader.luma, "luma", n),
                         IF D.hasChroma
                         THEN <<ComponentFrame(reader.chroma, "chroma", n)>>
                         ELSE <<>>,
                         D.isMono, D.properties, reader, D.hasChroma),
                     props |-> FrameProps(D)]
               /\ engine' = [r \in Roles |->
                                IF r = "luma" \/ D.hasChroma
                                THEN [engine[r] EXCEPT !.frameNumber = n]
                                ELSE engine[r]]
               /\ UNCHANGED reader
    /\ UNCHANGED <<disk, D, lastCall, decodeMutex, pc, req, out, qtApp>>

-----------------------------------------------------------------------------
(* SpecPlanes: frames requested one at a time, sample by sample *)

\* Captures three samples wide; the chroma capture starts one column later.
InitPlanes ==
    /\ disk \in [luma : {StoreDisk(Store(sys, 1, 4, FALSE, MaxFields)) :
                            sys \in {"NTSC", "PAL"}},
                 chroma : {StoreDisk(Store(sys, 2, 5, FALSE, MaxFields)) :
                            sys \in {"NTSC", "PAL"}}]
    /\ InitProgram

PlaneCalls ==
    {[NoIn EXCEPT !.source = <<<<"tbc">>>>, !.chroma = c, !.decoder = d,
                  !.padding_multiple = m] :
        c \in {<<>>, <<<<"tbc">>>>}, d \in {<<>>, <<"mono">>},
        m \in {<<>>, <<0>>, <<MaxPad>>}}

NextPlanes ==
    \/ \E In \in PlaneCalls : Create4fscSource(In)
    \/ VSAnalog4fscSourceFree
    \/ \E n \in FrameNumbers : VSAnalog4fscSourceGetFrame(n)

SpecPlanes == InitPlanes /\ [][NextPlanes]_vars

\* The samples of the frame returned.
Planes == DOMAIN frame.planes
Rows(c) == DOMAIN frame.planes[c]
Columns(c, y) == DOMAIN frame.planes[c][y]

\* C5: for every successfully decoded frame and every plane written, every
\* sample at a column >= activeWidth or at a row >= activeHeight is exactly
\* 0, and no sample of a ComponentFrame was read to produce it.
C5_PaddingIsZero ==
    frame.status = "ok" =>
        \A c \in Planes : \A y \in Rows(c) : \A x \in Columns(c, y) :
            x >= ActiveWidthOf("luma") \/ y >= ActiveHeightOf("luma") =>
                /\ frame.planes[c][y][x].value = [num |-> 0, den |-> 1]
                /\ frame.planes[c][y][x].read = <<>>

\* A three-plane NTSC frame padded from 3 x 485 to 8 x 488 whose active
\* samples were read from the ComponentFrame.
C5_Witness ==
    /\ frame.status = "ok" /\ Planes = {"Y", "U", "V"}
    /\ ActiveWidthOf("luma") = 3 /\ ActiveHeightOf("luma") = 485
    /\ \A c \in Planes :
          /\ Rows(c) = 0..487 /\ Columns(c, 0) = 0..7
          /\ frame.planes[c][484][2].read # <<>>
          /\ frame.planes[c][484][3].read = <<>>
          /\ frame.planes[c][485][0].read = <<>>

\* C7: the output is single-plane gray exactly when the primary reader's
\* engine is mono and no chroma source was supplied; in every other case
\* it is three-plane YUV 4:4:4 float, and every frame returned has its U and
\* V planes written as well as Y.
C7_GrayOnlyForMonoAlone ==
    D.exists =>
        LET gray == reader.luma.activeDecoder = "Mono" /\ lastCall.In.chroma = <<>>
        IN /\ gray <=> D.VI.format = "GRAYS"
           /\ ~gray <=> D.VI.format = "YUV444PS"
           /\ D.properties.SampleType = 1 /\ D.properties.BitsPerSample = 32
           /\ D.properties.SubSamplingW = 0 /\ D.properties.SubSamplingH = 0
           /\ frame.status = "ok" =>
                 /\ Planes = IF gray THEN {"Y"} ELSE {"Y", "U", "V"}
                 /\ \A c \in Planes :
                       /\ Rows(c) = 0..(D.VI.height - 1)
                       /\ \A y \in Rows(c) : Columns(c, y) = 0..(D.VI.width - 1)

\* A mono luma reader with a chroma source: the frame returned has three
\* planes, the U plane read from the chroma reader's ComponentFrame.
C7_Witness ==
    /\ D.exists /\ frame.status = "ok"
    /\ reader.luma.activeDecoder = "Mono" /\ lastCall.In.chroma # <<>>
    /\ D.VI.format = "YUV444PS"
    /\ Planes = {"Y", "U", "V"}
    /\ frame.planes["U"][0][0].read # <<>>
    /\ frame.planes["U"][0][0].read[1].role = "chroma"


-----------------------------------------------------------------------------
(* SpecMigrate: opening a source whose only metadata is a JSON sidecar, with
   every combination of absent, negative, zero and positive optional numbers
   in a field element *)

\* The optional numeric keys of a field element and the columns they go to.
NullableKeys == {"audioSamples", "decodeFaults", "diskLoc", "fileLoc", "efmTValues"}

Column(k) ==
    CASE k = "audioSamples" -> "audio_samples"
      [] k = "decodeFaults" -> "decode_faults"
      [] k = "diskLoc" -> "disk_loc"
      [] k = "fileLoc" -> "file_loc"
      [] k = "efmTValues" -> "efm_t_values"

\* A positive value for each key.
PositiveValue(k) ==
    CASE k = "audioSamples" -> 800
      [] k = "decodeFaults" -> 3
      [] k = "diskLoc" -> 7
      [] k = "fileLoc" -> 2147483647
      [] k = "efmTValues" -> 2

ValueKinds == {"absent", "negative", "zero", "positive"}

\* The first field element of the sidecar, from a choice of kind per key.
MigrateField(choice) ==
    [k \in {"seqNo", "isFirstField"} \cup {n \in NullableKeys : choice[n] # "absent"} |->
        CASE k = "seqNo" -> 0
          [] k = "isFirstField" -> TRUE
          [] OTHER -> CASE choice[k] = "negative" -> -1
                        [] choice[k] = "zero" -> 0
                        [] OTHER -> PositiveValue(k)]

MigrateDocs ==
    {JsonFile([videoParameters |-> JsonA.root.videoParameters,
               fields |-> <<MigrateField(c), [seqNo |-> 1, isFirstField |-> FALSE]>>]) :
        c \in [NullableKeys -> ValueKinds]}

InitMigrate ==
    /\ disk \in [luma : {MkDisk((BaseJson :> Present(j)) @@ [e \in Exts |-> Present(SampleFile)]) :
                            j \in MigrateDocs},
                 chroma : {PlainDisk}]
    /\ InitProgram

\* One call per behaviour: the call that migrates the sidecar.
NextMigrate ==
    \/ \E In \in OpenCalls : ~lastCall.made /\ Create4fscSource(In)
    \/ VSAnalog4fscSourceFree

SpecMigrate == InitMigrate /\ [][NextMigrate]_vars

\* The field elements of the sidecar, the rows stored for them and the
\* records read back from the store.
JsonElements == MigratedJson.root.fields
StoredRows == After[MigrationTarget].fields
ReadRecords == ReadBack.metadata.fields

IsPositive(element, k) == Has(element, k) /\ element[k] > 0

\* What the reader yields for a stored NULL.
ReaderDefault(k) == IF k = "decodeFaults" THEN 0 ELSE -1

\* The keys the reader reads back; efm_t_values is stored and never read.
ReadKeys == NullableKeys \ {"efmTValues"}

\* C11: during migration, for every field element each of audio sample
\* count, decode-fault count, disk location, file location and EFM value
\* count is stored as SQL NULL exactly when its JSON value is missing or <= 0
\* and as the JSON value otherwise; on read-back a stored NULL yields the
\* reader default (-1 for audio sample count, disk location and file
\* location, 0 for decode-fault count), so a positive JSON value round-trips
\* unchanged.
C11_NullSentinel ==
    Migrating /\ lastCall.migrated.luma = "commit" =>
        /\ Len(StoredRows) = Len(JsonElements) /\ Len(ReadRecords) = Len(JsonElements)
        /\ \A i \in 1..Len(JsonElements) :
              /\ \A k \in NullableKeys :
                    StoredRows[i][Column(k)] =
                        IF IsPositive(JsonElements[i], k)
                        THEN <<JsonElements[i][k]>> ELSE <<>>
              /\ \A k \in ReadKeys :
                    ReadRecords[i][k] =
                        IF IsPositive(JsonElements[i], k)
                        THEN JsonElements[i][k] ELSE ReaderDefault(k)

\* A migrated sidecar whose first element has a positive file location,
\* zero audio samples, -1 decode faults and no disk location: the row holds
\* the location and three NULLs, and the reader opened on it yields the
\* location, -1, 0 and -1.
C11_Witness ==
    /\ Migrating /\ lastCall.migrated.luma = "commit" /\ D.exists
    /\ DOMAIN JsonElements[1] =
          {"seqNo", "isFirstField", "fileLoc", "audioSamples", "decodeFaults"}
    /\ JsonElements[1].fileLoc = 2147483647
    /\ JsonElements[1].audioSamples = 0
    /\ JsonElements[1].decodeFaults = -1
    /\ StoredRows[1].file_loc = <<2147483647>>
    /\ StoredRows[1].audio_samples = <<>> /\ StoredRows[1].decode_faults = <<>>
    /\ StoredRows[1].disk_loc = <<>>
    /\ reader.luma.metadata.fields[1].fileLoc = 2147483647
    /\ reader.luma.metadata.fields[1].audioSamples = -1
    /\ reader.luma.metadata.fields[1].decodeFaults = 0
    /\ reader.luma.metadata.fields[1].diskLoc = -1


-----------------------------------------------------------------------------
(* Per-frame errors (checked under SpecPlanes) *)

\* The request for frame n returned: the host holds a new frame or a new
\* error for it, from the same filter.
Returned(n) == D.exists /\ D' = D /\ frame' # frame /\ frame'.n = n

OutOfRange(n) == n < 0 \/ n >= getNumFrames(reader.luma)

\* The filter and the readers as the call that created them left them.
AsCreated == CreateResult(lastCall.before, lastCall.In)

\* The frame a request for n gets from the filter as created.
FirstFrame(c, n) ==
    [status |-> "ok", n |-> n,
     planes |-> convertToFloat(ComponentFrame(c.reader.luma, "luma", n),
                               IF c.D.hasChroma
                               THEN <<ComponentFrame(c.reader.chroma, "chroma", n)>>
                               ELSE <<>>,
                               c.D.isMono, c.D.properties, c.reader, c.D.hasChroma),
     props |-> FrameProps(c.D)]

\* The readers with their error message left out.
Handles(rds) == [r \in Roles |-> [rds[r] EXCEPT !.lastError = ""]]

\* C12: decodeFrame(n) on an opened reader fails with a frame-out-of-range
\* error whenever n < 0 or n >= frameCount, without loading any field or
\* invoking the engine; after a failed request the reader stays open and
\* keeps everything but its error message, and a request for an in-range
\* frame, whatever requests failed before it, returns the frame the filter
\* returns right after its creation.
C12_FrameErrorsAreLocal ==
    [][\A n \in FrameNumbers :
          Returned(n) =>
              IF OutOfRange(n)
              THEN /\ frame'.status = "Failed to decode frame"
                   /\ frame'.planes = <<>>
                   /\ reader'.luma.lastError = "Frame number out of range"
                   /\ engine' = engine
                   /\ Handles(reader') = Handles(reader)
                   /\ \A r \in Roles : reader'[r].isOpen = reader[r].isOpen
              ELSE /\ frame' = FirstFrame(AsCreated, n)
                   /\ reader' = reader]_vars

\* A frame was returned by a reader whose last error is an out-of-range
\* request: the request after the failed one succeeded.
C12_Witness ==
    /\ D.exists /\ frame.status = "ok" /\ frame.n = 1
    /\ reader.luma.isOpen
    /\ reader.luma.lastError = "Frame number out of range"
    /\ engine.luma.frameNumber = 1


-----------------------------------------------------------------------------
(* SpecFail: opening one or two sources whose metadata or samples may be
   missing or unusable *)

GoodStore == Store("NTSC", 1, 4, FALSE, 2)

\* A directory for the source "capture.tbc": its files by name.
Directory(files) == MkDisk(files)

WithSamples == (<<"tbc">> :> Present(SampleFile))

\* One directory per way open() can end: a usable store; no metadata at all;
\* a sidecar that does not parse; a sidecar whose capture insert fails; a
\* sidecar with no field, which migrates to a store that cannot be read; a
\* store with no capture record; a usable store with no sample file; a
\* usable store of another length.
FailDisks ==
    {Directory((BaseDb :> Present(GoodStore)) @@ WithSamples),
     Directory(WithSamples),
     Directory((BaseJson :> Present([kind |-> "json", wellFormed |-> FALSE, root |-> <<>>]))
               @@ WithSamples),
     Directory((BaseJson :> Present(JsonFile([videoParameters |-> [system |-> "SECAM"],
                                              fields |-> JsonFields("from0", 2)])))
               @@ WithSamples),
     Directory((BaseJson :> Present(JsonFile([videoParameters |-> JsonA.root.videoParameters,
                                              fields |-> <<>>])))
               @@ WithSamples),
     Directory((BaseDb :> Present(createSchema)) @@ WithSamples),
     Directory((BaseDb :> Present(GoodStore))),
     Directory((BaseDb :> Present(Store("NTSC", 1, 4, FALSE, 4))) @@ WithSamples)}

InitFail ==
    /\ disk \in [luma : FailDisks, chroma : FailDisks]
    /\ InitProgram

NextFail ==
    \/ \E In \in FrameCalls : Create4fscSource(In)
    \/ VSAnalog4fscSourceFree

SpecFail == InitFail /\ [][NextFail]_vars

\* Everything a reader acquires in open(): the sample file, the metadata,
\* the engines.
Released(rd) ==
    /\ ~rd.isOpen /\ ~rd.sourceVideo
    /\ rd.metadata = NoMetadata /\ rd.engines = {}

OpenFailed == "Failed to open TBC file"
ChromaOpenFailed == "Failed to open chroma TBC file"

\* C13: if open fails at any step (no metadata found, JSON migration
\* failure, metadata read failure, sample file cannot be opened), the call
\* fails, no source object or filter is returned, and every reader is left
\* not open with what it acquired released, so that every later decodeFrame
\* on it fails; in dual-source mode a failure of the chroma open or of the
\* dimension / frame-count validation also releases the primary reader that
\* was already opened.
C13_FailedOpenReleases ==
    lastCall.made =>
        /\ ~lastCall.opened.luma => lastCall.error = OpenFailed
        /\ DualCall /\ lastCall.opened.luma /\ ~lastCall.opened.chroma =>
              lastCall.error = ChromaOpenFailed
        /\ lastCall.error # "" =>
              /\ D = NoFilter
              /\ \A r \in Roles :
                    /\ Released(reader[r])
                    /\ \A n \in FrameNumbers :
                          decodeFrameError(reader[r], n) = "TBC file not open"

\* A dual-source call whose primary reader opened and whose chroma source
\* has a store and no sample file: the call failed and the primary reader
\* was released.
C13_Witness ==
    /\ DualCall /\ lastCall.opened.luma /\ ~lastCall.opened.chroma
    /\ lastCall.error = ChromaOpenFailed
    /\ BaseDb \in DOMAIN disk.chroma /\ <<"tbc">> \notin DOMAIN disk.chroma
    /\ Released(reader.luma) /\ ~D.exists


-----------------------------------------------------------------------------
(* SpecProps: one source of each video system, widescreen or not, opened
   with every kind of fpsnum / fpsden, and its frames requested *)

PropStores == {Store(sys, 1, 4, w, MaxFields) : sys \in Systems, w \in BOOLEAN}

InitProps ==
    /\ disk \in [luma : {StoreDisk(st) : st \in PropStores}, chroma : {PlainDisk}]
    /\ InitProgram

\* fpsnum and fpsden: absent, negative, zero, and values that do and do not
\* reduce.
FpsNumArgs == {<<>>, <<-1>>, <<0>>, <<24>>, <<50>>, <<30000>>}
FpsDenArgs == {<<>>, <<-1>>, <<0>>, <<2>>, <<1001>>}

PropCalls ==
    {[NoIn EXCEPT !.source = <<<<"tbc">>>>, !.padding_multiple = <<0>>,
                  !.fpsnum = num, !.fpsden = den] :
        num \in FpsNumArgs, den \in FpsDenArgs}

\* One call per behaviour, then requests for the first two frames.
NextProps ==
    \/ \E In \in PropCalls : ~lastCall.made /\ Create4fscSource(In)
    \/ VSAnalog4fscSourceFree
    \/ \E n \in {0, 1} : VSAnalog4fscSourceGetFrame(n)

SpecProps == InitProps /\ [][NextProps]_vars

\* What the store of the primary source says.
NtscFamily == SystemOf("luma") \in {"NTSC", "PAL_M"}
Widescreen == StoreOf("luma").capture[1].is_widescreen # 0

\* C14: the sample aspect ratio of a source is a fixed function of (video
\* system family, widescreen flag): NTSC family (NTSC or PAL-M) non-widescreen
\* 352:413, NTSC family widescreen 25:22, PAL non-widescreen 259:311, PAL
\* widescreen 865:779; the same pair is attached to every frame of the stream.
C14_SarTable ==
    D.exists =>
        /\ <<D.sarNum, D.sarDen>> =
              IF NtscFamily
              THEN (IF Widescreen THEN <<25, 22>> ELSE <<352, 413>>)
              ELSE (IF Widescreen THEN <<865, 779>> ELSE <<259, 311>>)
        /\ frame.status = "ok" =>
              /\ frame.props._SARNum = D.sarNum
              /\ frame.props._SARDen = D.sarDen

\* A frame of a widescreen PAL-M source carries 25:22.
C14_Witness ==
    /\ D.exists /\ frame.status = "ok" /\ frame.n = 1
    /\ SystemOf("luma") = "PAL_M" /\ Widescreen
    /\ frame.props._SARNum = 25 /\ frame.props._SARDen = 22

FpsNumGiven == lastCall.In.fpsnum # <<>> /\ lastCall.In.fpsnum[1] > 0
FpsDenGiven == lastCall.In.fpsden # <<>>
FpsDenArg == IF FpsDenGiven THEN lastCall.In.fpsden[1] ELSE 1

\* C15: the frame rate of the stream is 30000/1001 for NTSC-family captures
\* (NTSC, PAL-M) and 25/1 for PAL captures unless fpsnum is supplied with a
\* value > 0, in which case it is fpsnum/fpsden in lowest terms (fpsden
\* defaulting to 1); a supplied fpsden < 1 makes the call fail with an error
\* and no stream is created.
C15_FrameRate ==
    lastCall.made =>
        /\ FpsDenGiven /\ FpsDenArg < 1 =>
              /\ lastCall.error = "FPS denominator needs to be 1 or greater"
              /\ ~D.exists /\ ~lastCall.opened.luma
        /\ FpsDenArg >= 1 => lastCall.error = ""
        /\ D.exists =>
              IF FpsNumGiven
              THEN /\ D.VI.fpsNum * FpsDenArg = D.VI.fpsDen * lastCall.In.fpsnum[1]
                   /\ D.VI.fpsNum > 0 /\ D.VI.fpsDen > 0
                   /\ Gcd(D.VI.fpsNum, D.VI.fpsDen) = 1
              ELSE <<D.VI.fpsNum, D.VI.fpsDen>> =
                       IF NtscFamily THEN <<30000, 1001>> ELSE <<25, 1>>

\* fpsnum = 50 and fpsden = 2 on an NTSC capture: the stream runs at 25/1.
C15_Witness ==
    /\ D.exists /\ SystemOf("luma") = "NTSC"
    /\ lastCall.In.fpsnum = <<50>> /\ lastCall.In.fpsden = <<2>>
    /\ D.VI.fpsNum = 25 /\ D.VI.fpsDen = 1

\* C20: every returned frame is tagged bottom-field-first exactly when the
\* reader's firstActiveFrameLine is odd and top-field-first otherwise, where
\* firstActiveFrameLine is the per-system constant recomputed from the system
\* when the store is read (44 for PAL, 40 for NTSC and PAL-M) and
\* lastActiveFrameLine is 620 for PAL and 525 for NTSC and PAL-M.
C20_FieldOrder ==
    D.exists =>
        /\ reader.luma.videoParameters.firstActiveFrameLine =
              IF SystemOf("luma") = "PAL" THEN 44 ELSE 40
        /\ reader.luma.videoParameters.lastActiveFrameLine =
              IF SystemOf("luma") = "PAL" THEN 620 ELSE 525
        /\ frame.status = "ok" =>
              frame.props._FieldBased =
                  IF reader.luma.videoParameters.firstActiveFrameLine % 2 = 1
                  THEN 1 ELSE 2

\* A frame of a PAL source, whose first active line is 44, tagged
\* top-field-first.
C20_Witness ==
    /\ D.exists /\ frame.status = "ok" /\ SystemOf("luma") = "PAL"
    /\ reader.luma.videoParameters.firstActiveFrameLine = 44
    /\ frame.props._FieldBased = 2

-----------------------------------------------------------------------------
(* The decoder argument (checked under SpecSelect) *)

\* The eight decoder names and the DecoderType each stands for.
EngineOfName ==
    [ntsc1d |-> "Ntsc1D", ntsc2d |-> "Ntsc2D", ntsc3d |-> "Ntsc3D",
     ntsc3dnoadapt |-> "Ntsc3DNoAdapt", pal2d |-> "Pal2D",
     transform2d |-> "Transform2D", transform3d |-> "Transform3D",
     mono |-> "Mono"]

\* The ways of writing each of the eight names among the arguments passed.
Spellings ==
    [n \in DOMAIN EngineOfName |->
        {n} \cup (CASE n = "pal2d" -> {"PAL2D"}
                   [] n = "mono" -> {"Mono"}
                   [] n = "ntsc3d" -> {"NTSC3D"}
                   [] n = "transform3d" -> {"Transform3D"}
                   [] OTHER -> {})]

\* The decoder each open reader of the source was configured with.
ConfiguredWith(decoder) ==
    \A r \in Roles : reader[r].isOpen => reader[r].config.decoder = decoder

\* C16: the decoder argument selects an explicit engine for the eight names
\* ntsc1d, ntsc2d, ntsc3d, ntsc3dnoadapt, pal2d, transform2d, transform3d and
\* mono in any letter case, each mapped to its own engine variant; every
\* other string, and an absent or empty argument, is treated as auto.
C16_NamesIgnoreCase ==
    lastCall.made /\ D.exists =>
        /\ \A n \in DOMAIN EngineOfName :
              DecoderName \in Spellings[n] => ConfiguredWith(EngineOfName[n])
        /\ (\A n \in DOMAIN EngineOfName : DecoderName \notin Spellings[n]) =>
              ConfiguredWith("Auto")

\* The statement with the eight strings exactly as written.
C16_ExactlyEightStrings ==
    lastCall.made /\ D.exists =>
        ConfiguredWith(IF DecoderName \in DOMAIN EngineOfName
                       THEN EngineOfName[DecoderName] ELSE "Auto")

\* Both readers of a two-source call were configured for the 3D comb filter
\* by the name NTSC3D.
C16_Witness ==
    /\ lastCall.made /\ D.exists /\ D.hasChroma
    /\ DecoderName = "NTSC3D"
    /\ \A r \in Roles : reader[r].isOpen /\ reader[r].config.decoder = "Ntsc3D"

-----------------------------------------------------------------------------
(* SpecStore: opening a source whose store holds any rows *)

\* The most field rows a store holds, and the field ids they are drawn from.
MaxRows == 3
RowIds == {0, 1, 2, 5}

\* The rows of a store in the order they were inserted: field ids are unique
\* (PRIMARY KEY (capture_id, field_id)) and in no particular order.
RowOrders ==
    {ids \in UNION {[1..n -> RowIds] : n \in 0..MaxRows} :
        \A i, j \in 1..Len(ids) : i # j => ids[i] # ids[j]}

\* A store with the given field ids, with or without its capture row.
StoreOfRows(ids, hasCapture) ==
    LET st == Store("NTSC", 1, 4, FALSE, Len(ids))
    IN [st EXCEPT !.capture = IF hasCapture THEN @ ELSE <<>>,
                  !.fields = [i \in 1..Len(ids) |->
                                 [@[i] EXCEPT !.field_id = ids[i]]]]

InitStore ==
    /\ disk \in [luma : {StoreDisk(StoreOfRows(ids, c)) :
                            ids \in RowOrders, c \in BOOLEAN},
                 chroma : {StoreDisk(GoodStore)}]
    /\ InitProgram

NextStore ==
    \/ \E In \in FrameCalls : ~lastCall.made /\ Create4fscSource(In)
    \/ VSAnalog4fscSourceFree

SpecStore == InitStore /\ [][NextStore]_vars

\* The store the primary reader was given, and the field ids in it.
GivenStore == StoreOf("luma")
GivenIds == {GivenStore.fields[i].field_id : i \in 1..Len(GivenStore.fields)}
Delivered == reader.luma.metadata.fields

\* C17: reading a structured store fails, and the enclosing open fails
\* leaving the reader not open, when the store has no capture record or when
\* it has a capture record but no field record; it succeeds only when a
\* capture record and at least one field record are read, and then the
\* FieldRecords are delivered in ascending field-id order, one per row, with
\* sequence number = field id + 1.
C17_StoreRead ==
    lastCall.made =>
        /\ GivenStore.capture = <<>> \/ GivenStore.fields = <<>> =>
              /\ ~Sqlite3MetadataReaderRead(GivenStore).ok
              /\ ~lastCall.opened.luma /\ ~reader.luma.isOpen
              /\ lastCall.error = OpenFailed /\ ~D.exists
        /\ GivenStore.capture # <<>> /\ GivenStore.fields # <<>> =>
              /\ Sqlite3MetadataReaderRead(GivenStore).ok
              /\ lastCall.opened.luma
        /\ reader.luma.isOpen =>
              /\ Len(Delivered) = Len(GivenStore.fields)
              /\ {Delivered[k].seqNo : k \in 1..Len(Delivered)} =
                     {id + 1 : id \in GivenIds}
              /\ \A k \in 1..(Len(Delivered) - 1) :
                     Delivered[k].seqNo < Delivered[k + 1].seqNo

\* A store whose rows were inserted with ids 5, 0, 2 was opened, and its
\* fields are delivered as 1, 3, 6.
C17_Witness ==
    /\ lastCall.made /\ reader.luma.isOpen
    /\ [i \in 1..Len(GivenStore.fields) |-> GivenStore.fields[i].field_id] = <<5, 0, 2>>
    /\ [k \in 1..Len(Delivered) |-> Delivered[k].seqNo] = <<1, 3, 6>>

-----------------------------------------------------------------------------
(* The two revisions of convertToFloat, computed step by step in exact
   arithmetic. A quantity is (num / den) * kB^kB * kR^kR: the decimal
   literals are rationals, the reduction factors kB and kR stay symbolic. *)

Revisions == {"part_002", "analog4fsc"}

\* The quantity num / den in lowest terms with a positive denominator.
Quantity(num, den, eB, eR) ==
    LET g == Gcd(Abs(num), Abs(den))
        sgn == IF den < 0 THEN -1 ELSE 1
    IN IF num = 0 THEN [num |-> 0, den |-> 1, kB |-> 0, kR |-> 0]
       ELSE [num |-> sgn * (num \div g), den |-> sgn * (den \div g),
             kB |-> eB, kR |-> eR]

Number(n) == Quantity(n, 1, 0, 0)
Decimal(thousandths) == Quantity(thousandths, 1000, 0, 0)

\* a * b, a / b and a - b of C++ doubles, without rounding.
Times(a, b) ==
    LET g1 == Gcd(Abs(a.num), b.den)
        g2 == Gcd(Abs(b.num), a.den)
    IN Quantity((a.num \div g1) * (b.num \div g2), (a.den \div g2) * (b.den \div g1),
                a.kB + b.kB, a.kR + b.kR)

Over(a, b) == Times(a, [num |-> b.den, den |-> b.num, kB |-> -b.kB, kR |-> -b.kR])

Minus(a, b) == Quantity(a.num * b.den - b.num * a.den, a.den * b.den, a.kB, a.kR)

\* static constexpr double kB, kR
kB == [num |-> 1, den |-> 1, kB |-> 1, kR |-> 0]
kR == [num |-> 1, den |-> 1, kB |-> 0, kR |-> 1]

\* static constexpr double Y_SCALE, C_SCALE
Y_SCALE(rev) == IF rev = "part_002" THEN Number(1) ELSE Times(Number(219), Number(256))
C_SCALE(rev) == IF rev = "part_002" THEN Number(1) ELSE Times(Number(112), Number(256))

\* BLUE_DIFFERENCE_SCALE, RED_DIFFERENCE_SCALE of part_002; ONE_MINUS_Kb,
\* ONE_MINUS_Kr of analog4fsc.cpp.
DifferenceScale(rev, comp) ==
    IF rev = "part_002"
    THEN (IF comp = "U" THEN Decimal(1772) ELSE Decimal(1402))
    ELSE (IF comp = "U" THEN Minus(Number(1), Decimal(114))
          ELSE Minus(Number(1), Decimal(299)))

Reduction(comp) == IF comp = "U" THEN kB ELSE kR

\* const double yScale, cbScale, crScale
yScale(rev, yRange) == Over(Y_SCALE(rev), Number(yRange))

cScale(rev, comp, uvRange) ==
    Over(Over(C_SCALE(rev), Times(DifferenceScale(rev, comp), Reduction(comp))),
         Number(uvRange))

\* A conversion with no second factor.
NoNorm(rev) == Number(1)

\* const double yNorm of analog4fsc.cpp; part_002 has no such factor.
yNorm(rev) ==
    IF rev = "part_002" THEN Number(1) ELSE Over(Number(1), Y_SCALE(rev))

\* const double cbNorm, crNorm of analog4fsc.cpp; part_002 has none.
cNorm(rev, comp) ==
    IF rev = "part_002" THEN Number(1)
    ELSE Over(Number(1),
              Over(Times(Number(2), C_SCALE(rev)),
                   Times(DifferenceScale(rev, comp), Reduction(comp))))

\* yRow[x] = (srcY[x] - yOffset) * yScale [* yNorm]
LumaValue(rev, srcY, yOffset, yRange) ==
    Times(Times(Number(srcY - yOffset), yScale(rev, yRange)), yNorm(rev))

\* uRow[x] = srcU[x] * cbScale [* cbNorm], vRow[x] likewise
ChromaValue(rev, comp, srcUV, uvRange) ==
    Times(Times(Number(srcUV), cScale(rev, comp, uvRange)), cNorm(rev, comp))

\* One destination sample as revision rev writes it: the position read is
\* the same in both revisions, the value is the revision's.
SampleOf(rev, comp, s, lumaFrame, uvSourceFrame, yOffset, yRange) ==
    IF s.read = <<>> THEN [value |-> Number(0), read |-> <<>>]
    ELSE IF comp = "Y"
    THEN [value |-> LumaValue(rev, ComponentSample(lumaFrame, "Y", s.read[1].line,
                                                   s.read[1].col),
                              yOffset, yRange),
          read |-> s.read]
    ELSE [value |-> ChromaValue(rev, comp,
                                ComponentSample(uvSourceFrame, comp, s.read[1].line,
                                                s.read[1].col),
                                yRange),
          read |-> s.read]

PlanesOf(rev, P, lumaFrame, uvSourceFrame, yOffset, yRange) ==
    [c \in DOMAIN P |->
        [y \in DOMAIN P[c] |->
            [x \in DOMAIN P[c][y] |->
                SampleOf(rev, c, P[c][y][x], lumaFrame, uvSourceFrame,
                         yOffset, yRange)]]]

\* convertToFloat of revision rev.
convertToFloatOf(rev, lumaFrame, chromaFrames, isMono, properties, rds, hasChromaReader) ==
    PlanesOf(rev,
             convertToFloat(lumaFrame, chromaFrames, isMono, properties, rds,
                            hasChromaReader),
             lumaFrame,
             IF chromaFrames # <<>> THEN chromaFrames[1] ELSE lumaFrame,
             rds.luma.videoParameters.black16bIre,
             rds.luma.videoParameters.white16bIre
                 - rds.luma.videoParameters.black16bIre)

\* VSAnalog4fscSourceGetFrame(n, arInitial, ...) of a plugin built from
\* revision rev of analog4fsc.cpp, from allocation to return.
GetFrameOf(rev, n) ==
    /\ D.exists
    /\ \A t \in Threads : pc[t] = "idle"
    /\ D.VI.width > 0 /\ D.VI.height > 0
    /\ LET failed == FailedReader(reader, D.hasChroma, n)
       IN IF failed # ""
          THEN /\ reader' = [reader EXCEPT
                                ![failed].lastError = decodeFrameError(reader[failed], n)]
               /\ engine' = IF failed = "chroma"
                            THEN [engine EXCEPT !["luma"].frameNumber = n]
                            ELSE engine
               /\ frame' = [status |-> "Failed to decode frame", n |-> n,
                            planes |-> <<>>, props |-> <<>>, revision |-> rev]
          ELSE /\ frame' =
                    [status |-> "ok", n |-> n,
                     planes |-> convertToFloatOf(rev,
                         ComponentFrame(reader.luma, "luma", n),
                         IF D.hasChroma
                         THEN <<ComponentFrame(reader.chroma, "chroma", n)>>
                         ELSE <<>>,
                         D.isMono, D.properties, reader, D.hasChroma),
                     props |-> FrameProps(D),
                     revision |-> rev]
               /\ engine' = [r \in Roles |->
                                IF r = "luma" \/ D.hasChroma
                                THEN [engine[r] EXCEPT !.frameNumber = n]
                                ELSE engine[r]]
               /\ UNCHANGED reader
    /\ UNCHANGED <<disk, D, lastCall, decodeMutex, pc, req, out, qtApp>>

-----------------------------------------------------------------------------
(* SpecConvert: frames of either revision, sample by sample *)

\* One or two sources, colour or mono, padded to a multiple of MaxPad.
ConvertCalls ==
    {[NoIn EXCEPT !.source = <<<<"tbc">>>>, !.chroma = c, !.decoder = d,
                  !.padding_multiple = <<MaxPad>>] :
        c \in {<<>>, <<<<"tbc">>>>}, d \in {<<>>, <<"mono">>}}

\* A frame does not depend on the requests before it: each behaviour opens
\* one source and requests one frame of it.
NextConvert ==
    \/ \E In \in ConvertCalls : ~lastCall.made /\ Create4fscSource(In)
    \/ VSAnalog4fscSourceFree
    \/ \E rev \in Revisions, n \in FrameNumbers :
          frame = NoFrame /\ GetFrameOf(rev, n)

SpecConvert == InitPlanes /\ [][NextConvert]_vars

\* The frame of the source that is still open, and the levels and the
\* active region of its primary reader.
FrameOfSource == D.exists /\ frame.status = "ok"
BlackLevel == reader.luma.videoParameters.black16bIre
WhiteLevel == reader.luma.videoParameters.white16bIre
ActiveRows == 0..(reader.luma.activeHeight - 1)
ActiveCols == 0..(reader.luma.activeWidth - 1)

\* The Y sample of the primary ComponentFrame behind destination (y, x).
SrcY(y, x) ==
    ComponentSample(ComponentFrame(reader.luma, "luma", frame.n), "Y",
                    reader.luma.videoParameters.firstActiveFrameLine + y,
                    reader.luma.videoParameters.activeVideoStart + x)

\* q is the plain number num / den.
IsRatio(q, num, den) ==
    /\ q.kB = 0 /\ q.kR = 0 /\ q.den > 0
    /\ q.num * den = num * q.den

\* C18: for every destination luma sample in the active region (row y <
\* activeHeight, column x < activeWidth), the output equals (src - blackLevel)
\* / (whiteLevel - blackLevel), where src is the primary ComponentFrame's Y
\* sample at row firstActiveFrameLine + y and column activeVideoStart + x;
\* a source sample equal to blackLevel yields 0 and one equal to whiteLevel
\* yields 1, in each revision of convertToFloat.
C18_LumaConversion ==
    FrameOfSource =>
        \A y \in ActiveRows, x \in ActiveCols :
            LET s == frame.planes.Y[y][x]
            IN /\ s.read = <<[role |-> "luma", frameNumber |-> frame.n, comp |-> "Y",
                              line |-> reader.luma.videoParameters.firstActiveFrameLine + y,
                              col |-> reader.luma.videoParameters.activeVideoStart + x]>>
               /\ IsRatio(s.value, SrcY(y, x) - BlackLevel, WhiteLevel - BlackLevel)
               /\ SrcY(y, x) = BlackLevel => s.value = Number(0)
               /\ SrcY(y, x) = WhiteLevel => s.value = Number(1)

\* A frame of the revision with the second factor holds a sample at the
\* black level, one at the white level and one in between.
C18_Witness ==
    /\ FrameOfSource /\ frame.revision = "analog4fsc"
    /\ \E y \in ActiveRows, x \in ActiveCols :
          SrcY(y, x) = BlackLevel /\ frame.planes.Y[y][x].value = Number(0)
    /\ \E y \in ActiveRows, x \in ActiveCols :
          SrcY(y, x) = WhiteLevel /\ frame.planes.Y[y][x].value = Number(1)
    /\ \E y \in ActiveRows, x \in ActiveCols :
          /\ SrcY(y, x) = BlackLevel + 8
          /\ frame.planes.Y[y][x].value = [num |-> 1, den |-> 4, kB |-> 0, kR |-> 0]

\* The reader whose ComponentFrame supplies U and V, and the sample behind
\* destination (y, x).
UVReader == IF D.hasChroma THEN "chroma" ELSE "luma"

SrcUV(comp, y, x) ==
    ComponentSample(ComponentFrame(reader[UVReader], UVReader, frame.n), comp,
                    reader[UVReader].videoParameters.firstActiveFrameLine + y,
                    reader[UVReader].videoParameters.activeVideoStart + x)

\* The luma-matrix coefficient K of a component, in thousandths.
MatrixCoefficient(comp) == IF comp = "U" THEN 114 ELSE 299

\* q = src / ((2 * (1 - K)) * k * range), k being kB for U and kR for V.
IsScaled(q, comp, src, range) ==
    IF src = 0 THEN q.num = 0
    ELSE /\ q.kB = (IF comp = "U" THEN -1 ELSE 0)
         /\ q.kR = (IF comp = "V" THEN -1 ELSE 0)
         /\ q.den > 0
         /\ q.num * (2 * (1000 - MatrixCoefficient(comp)) * range) = src * 1000 * q.den

\* C19: for every active-region sample of a colour output, out_Cb = src_U *
\* Cb_scale and out_Cr = src_V * Cr_scale with scale = 1 / ((2 * (1 - K)) * k
\* * (whiteLevel - blackLevel)), K = 0.114 and k = kB for Cb, K = 0.299 and
\* k = kR for Cr, in each revision of convertToFloat.
C19_ChromaScale ==
    FrameOfSource /\ ~D.isMono =>
        \A comp \in {"U", "V"}, y \in ActiveRows, x \in ActiveCols :
            IsScaled(frame.planes[comp][y][x].value, comp, SrcUV(comp, y, x),
                     WhiteLevel - BlackLevel)

\* A colour frame written by analog4fsc.cpp holds a Cb sample that is the
\* source sample 4 over twice the range 32, with no kB in it.
C19_Witness ==
    /\ FrameOfSource /\ ~D.isMono /\ frame.revision = "analog4fsc"
    /\ WhiteLevel - BlackLevel = 32
    /\ \E y \in ActiveRows, x \in ActiveCols :
          /\ SrcUV("U", y, x) = 4
          /\ frame.planes.U[y][x].value = [num |-> 1, den |-> 16, kB |-> 0, kR |-> 0]
          /\ ~IsScaled(frame.planes.U[y][x].value, "U", 4, 32)

\* The revision part_002 applies the scale.
ChromaScaleOfPart002 ==
    FrameOfSource /\ ~D.isMono /\ frame.revision = "part_002" =>
        \A comp \in {"U", "V"}, y \in ActiveRows, x \in ActiveCols :
            IsScaled(frame.planes[comp][y][x].value, comp, SrcUV(comp, y, x),
                     WhiteLevel - BlackLevel)

-----------------------------------------------------------------------------
(* The lock of a dual source (checked under SpecFrames) *)

\* The requests decoding on reader r: in decodeFrame or inside its engine.
Decoding(r) == {t \in Threads : pc[t] \in {r, EngineLabel(r)}}

\* C21: in dual-source mode the two readers are protected by the one lock of
\* the source: a request decoding on either reader holds it, so a decode on
\* the primary reader and a decode on the chroma reader are never in flight
\* at the same time for two requests, and a request waiting for the lock
\* holds no lock.
C21_OneLockForBothReaders ==
    D.hasChroma =>
        /\ \A r \in Roles : Decoding(r) \subseteq decodeMutex
        /\ Cardinality(Decoding("luma") \cup Decoding("chroma")) <= 1
        /\ \A u \in Threads : pc[u] = "lock" => u \notin decodeMutex

\* The statement with one lock per reader: the lock a request needs to
\* decode on the primary reader is taken only while a request decodes on
\* the primary reader.
C21_IndependentLocks ==
    D.hasChroma /\ Decoding("luma") = {} /\ (\A t \in Threads : pc[t] # "convert") =>
        MutexAvailable(decodeMutex)

\* One request is inside the chroma engine, the primary reader is idle, and
\* another request for the same frame is kept waiting.
C21_Witness ==
    \E t, u \in Threads :
        /\ D.hasChroma /\ t # u
        /\ pc[t] = "chromaEngine" /\ pc[u] = "lock" /\ req[t] = req[u]
        /\ Decoding("luma") = {} /\ engine.luma.busy = {}
        /\ ~MutexAvailable(decodeMutex)

-----------------------------------------------------------------------------
(* SpecWindow: decodeFrame and the window of fields it hands to the engine *)

\* loadFieldsForFrame(frameNumber, fields, startIndex, endIndex): ld-decode's
\* SourceField::loadFields for one frame, 1-based, with lookBehind frames
\* before it and lookAhead frames after it, two fields per frame; a frame
\* outside the capture is loaded as a blank one. startIndex and endIndex
\* (0-based, as in the code) delimit the fields of the requested frame.
loadFieldsForFrame(rd, frameNumber) ==
    LET firstFrame == frameNumber + 1 - rd.lookBehind
        frames == rd.lookBehind + 1 + rd.lookAhead
    IN [fields |-> [i \in 1..(2 * frames) |->
                       LET f == firstFrame + (i - 1) \div 2
                       IN [seqNo |-> 2 * f - (i % 2),
                           blank |-> f < 1 \/ f > getNumFrames(rd)]],
        startIndex |-> 2 * rd.lookBehind,
        endIndex |-> 2 * rd.lookBehind + 2]

\* The 0-based positions i at which the loop swaps fields[i], fields[i + 1].
SwapPositions(size, startIndex, endIndex) ==
    {i \in startIndex..(endIndex - 1) :
        (i - startIndex) % 2 = 0 /\ i + 1 < size}

\* "Handle field reversal if requested": the fields after the loop.
ReverseFields(fields, startIndex, endIndex, reverseFields) ==
    IF reverseFields /\ Len(fields) >= 2
    THEN LET S == SwapPositions(Len(fields), startIndex, endIndex)
         IN [j \in 1..Len(fields) |->
                IF (j - 1) \in S THEN fields[j + 1]
                ELSE IF (j - 2) \in S THEN fields[j - 1]
                ELSE fields[j]]
    ELSE fields

\* What the engine of a reader was last handed.
Dispatched(rd, frameNumber) ==
    LET w == loadFieldsForFrame(rd, frameNumber)
    IN [busy |-> {}, frameNumber |-> frameNumber, loaded |-> w.fields,
        fields |-> ReverseFields(w.fields, w.startIndex, w.endIndex,
                                 rd.config.reverseFields),
        startIndex |-> w.startIndex, endIndex |-> w.endIndex]

\* A decodeFrame that reverses the field records of the reader themselves.
decodeFrameInPlace(r, frameNumber) ==
    /\ D.exists /\ (r = "luma" \/ D.hasChroma)
    /\ \A t \in Threads : pc[t] = "idle"
    /\ LET e == decodeFrameError(reader[r], frameNumber)
       IN IF e # ""
          THEN /\ reader' = [reader EXCEPT ![r].lastError = e]
               /\ UNCHANGED engine
          ELSE /\ engine' = [engine EXCEPT ![r] = Dispatched(reader[r], frameNumber)]
               /\ reader' = [reader EXCEPT ![r].metadata.fields =
                                ReverseFields(@, 2 * frameNumber, 2 * frameNumber + 2,
                                              reader[r].config.reverseFields)]
    /\ UNCHANGED <<disk, D, lastCall, decodeMutex, pc, req, out, frame, qtApp>>

\* TbcReader::decodeFrame(frameNumber, frame) on reader r of the source.
decodeFrame(r, frameNumber) ==
    /\ D.exists /\ (r = "luma" \/ D.hasChroma)
    /\ \A t \in Threads : pc[t] = "idle"
    /\ LET e == decodeFrameError(reader[r], frameNumber)
       IN IF e # ""
          THEN /\ reader' = [reader EXCEPT ![r].lastError = e]
               /\ UNCHANGED engine
          ELSE /\ engine' = [engine EXCEPT ![r] = Dispatched(reader[r], frameNumber)]
               /\ UNCHANGED reader
    /\ UNCHANGED <<disk, D, lastCall, decodeMutex, pc, req, out, frame, qtApp>>

\* Captures of both systems; the decoders with and without a window beyond
\* the frame; reverse_fields absent, 0 and 1.
InitWindow ==
    /\ disk \in [luma : {StoreDisk(Store(sys, 1, 4, FALSE, MaxFields)) :
                            sys \in {"NTSC", "PAL"}},
                 chroma : {StoreDisk(Store(sys, 1, 4, FALSE, MaxFields)) :
                            sys \in {"NTSC", "PAL"}}]
    /\ InitProgram

WindowCalls ==
    {[NoIn EXCEPT !.source = <<<<"tbc">>>>, !.chroma = c, !.decoder = d,
                  !.reverse_fields = v] :
        c \in {<<>>, <<<<"tbc">>>>},
        d \in {<<>>, <<"mono">>, <<"ntsc3d">>, <<"transform3d">>},
        v \in {<<>>, <<0>>, <<1>>}}

NextWindow ==
    \/ \E In \in WindowCalls : ~lastCall.made /\ Create4fscSource(In)
    \/ VSAnalog4fscSourceFree
    \/ \E r \in Roles, n \in FrameNumbers : decodeFrame(r, n)

SpecWindow == InitWindow /\ [][NextWindow]_vars

\* The readers whose engine has been handed a window.
Handed(r) == D.exists /\ "fields" \in DOMAIN engine[r]

\* The fields of a window as a bag.
BagOfFields(fields) ==
    [f \in {fields[i] : i \in DOMAIN fields} |->
        Cardinality({i \in DOMAIN fields : fields[i] = f})]

\* C22: when reverseFields is configured, decodeFrame swaps field order
\* pairwise within the loaded window of fields (the target frame's fields
\* plus the engine's look-behind and look-ahead fields) before dispatching
\* to the engine; when it is not configured the window is passed in loaded
\* order; the swap only permutes positions and applying it twice restores
\* the loaded order.
C22_PairwiseReversal ==
    \A r \in Roles :
        Handed(r) =>
            LET e == engine[r]
                rev == reader[r].config.reverseFields
            IN /\ rev =>
                     \A k \in 1..(Len(e.loaded) \div 2) :
                         /\ e.fields[2 * k - 1] = e.loaded[2 * k]
                         /\ e.fields[2 * k] = e.loaded[2 * k - 1]
               /\ ~rev => e.fields = e.loaded
               /\ BagOfFields(e.fields) = BagOfFields(e.loaded)
               /\ ReverseFields(e.fields, e.startIndex, e.endIndex, rev) = e.loaded

\* With reverse_fields = 1 and the 3D comb filter, frame 0 was dispatched as
\* six fields: the pair of frame 0 swapped, the pair of frame 1 after it in
\* loaded order.
C22_Witness ==
    /\ Handed("luma") /\ reader.luma.config.reverseFields
    /\ reader.luma.lookBehind = 1 /\ reader.luma.lookAhead = 1
    /\ engine.luma.frameNumber = 0
    /\ [i \in 1..Len(engine.luma.fields) |-> engine.luma.fields[i].seqNo]
          = <<-1, 0, 2, 1, 3, 4>>

-----------------------------------------------------------------------------
(* The reader's open-time state (checked under SpecWindow) *)

\* What open() establishes in a reader.
OpenTimeState(rd) ==
    [videoParameters |-> rd.videoParameters, fields |-> rd.metadata.fields,
     config |-> rd.config, activeDecoder |-> rd.activeDecoder,
     engines |-> rd.engines, chromaFilter |-> rd.chromaFilter,
     dimensions |-> rd.dimensions, adaptive |-> rd.adaptive,
     lookBehind |-> rd.lookBehind, lookAhead |-> rd.lookAhead,
     activeWidth |-> rd.activeWidth, activeHeight |-> rd.activeHeight,
     outputWidth |-> rd.outputWidth, outputHeight |-> rd.outputHeight]

\* C23: no frame request changes the reader's open-time state: after any
\* sequence of successful and failed decodeFrame calls, the reader's
\* VideoParameters, field records, Configuration, selected engine variant,
\* look-behind / look-ahead counts and active / output geometry equal their
\* values immediately after open; the selected variant is never auto, and
\* look-behind and look-ahead are both 0 when it is mono.
C23_OpenStateIsFixed ==
    D.exists =>
        \A r \in Roles :
            reader[r].isOpen =>
                /\ OpenTimeState(reader[r]) = OpenTimeState(AsCreated.reader[r])
                /\ reader[r].activeDecoder # "Auto"
                /\ reader[r].activeDecoder = "Mono" =>
                      reader[r].lookBehind = 0 /\ reader[r].lookAhead = 0

\* A reader with the 3D comb filter and reversed fields has failed one
\* request and then handed a window to its engine.
C23_Witness ==
    /\ D.exists /\ reader.luma.isOpen /\ reader.luma.config.reverseFields
    /\ reader.luma.activeDecoder = "Ntsc3D" /\ reader.luma.lookBehind = 1
    /\ reader.luma.lastError = "Frame number out of range"
    /\ Handed("luma") /\ engine.luma.frameNumber = 1

-----------------------------------------------------------------------------
(* SpecCreate: Create4fscSource running on several threads *)

\* The most QCoreApplication objects the threads may construct.
MaxApps == 3

\* ensureQtInitialized, the test: if (!QCoreApplication::instance()).
EnsureTest(t) ==
    /\ pc[t] = "idle"
    /\ qtApp.constructed < MaxApps
    /\ Goto(t, IF qtApp.instance = 0 THEN "construct" ELSE "ensured")
    /\ UNCHANGED <<disk, reader, D, lastCall, decodeMutex, req, engine, out, frame, qtApp>>

\* ensureQtInitialized, the assignment: a thread that saw no instance
\* constructs one. When the pointer already owns an application, made by a
\* thread that ran in between, that one is destroyed by the assignment; the
\* two threads are not synchronized, so instance() is then the new
\* application, or null once the destructor of the old one has cleared it.
EnsureConstruct(t) ==
    /\ pc[t] = "construct"
    /\ \E inst \in {MakeApp(qtApp).instance} \cup (IF qtApp.owned # 0 THEN {0} ELSE {}) :
          qtApp' = [MakeApp(qtApp) EXCEPT !.instance = inst]
    /\ Goto(t, "ensured")
    /\ UNCHANGED <<disk, reader, D, lastCall, decodeMutex, req, engine, out, frame>>

\* The rest of Create4fscSource on thread t: the arguments, the opens, the
\* filter. The model holds one filter at a time.
CreateAfterEnsure(t, In) ==
    /\ pc[t] = "ensured"
    /\ ~D.exists
    /\ LET c == CreateResult(disk, In)
       IN /\ disk' = c.disk
          /\ reader' = c.reader
          /\ D' = c.D
          /\ lastCall' = [made |-> TRUE, error |-> c.error, migrated |-> c.migrated,
                          dbPath |-> c.dbPath, opened |-> c.opened, In |-> In,
                          before |-> disk,
                          instance |-> qtApp.instance]
    /\ engine' = [r \in Roles |-> NoEngine]
    /\ frame' = NoFrame
    /\ out' = [u \in Threads |-> NoOut]
    /\ Goto(t, "idle")
    /\ UNCHANGED <<decodeMutex, req, qtApp>>

\* The filter of a finished call is freed.
FreeCreated ==
    /\ D.exists
    /\ D' = NoFilter
    /\ reader' = [r \in Roles |-> Destroyed(reader[r])]
    /\ UNCHANGED <<disk, lastCall, decodeMutex, pc, req, engine, out, frame, qtApp>>

\* The host may or may not have a QCoreApplication of its own.
InitCreate ==
    /\ disk \in [luma : FailDisks, chroma : {StoreDisk(GoodStore)}]
    /\ reader = [r \in Roles |-> TbcReader]
    /\ D = NoFilter
    /\ lastCall = [made |-> FALSE, error |-> "", migrated |-> NoCall.migrated,
                   dbPath |-> NoCall.dbPath, opened |-> NoCall.opened,
                   In |-> NoIn, before |-> disk, instance |-> 0]
    /\ decodeMutex = {}
    /\ pc = [t \in Threads |-> "idle"]
    /\ req = [t \in Threads |-> -1]
    /\ engine = [r \in Roles |-> NoEngine]
    /\ out = [t \in Threads |-> NoOut]
    /\ frame = NoFrame
    /\ qtApp \in {NoApp, [NoApp EXCEPT !.instance = -1]}

NextCreate ==
    \/ \E t \in Threads : EnsureTest(t)
    \/ \E t \in Threads : EnsureConstruct(t)
    \/ \E t \in Threads, In \in FrameCalls : CreateAfterEnsure(t, In)
    \/ FreeCreated

SpecCreate == InitCreate /\ [][NextCreate]_vars

\* C24: across any interleaving of concurrent filter-creation calls, the
\* process-wide QCoreApplication is constructed at most once, exists before
\* any open runs, and is never torn down afterwards.
C24_RuntimeContextOnce ==
    /\ qtApp.constructed <= 1
    /\ qtApp.destroyed = {}
    /\ lastCall.made => lastCall.instance # 0 /\ qtApp.instance # 0

\* Two threads have each constructed an application: the first one was
\* destroyed when the second was assigned.
C24_Witness ==
    /\ qtApp.constructed = 2 /\ qtApp.owned = 2 /\ qtApp.destroyed = {1}
    /\ \A t \in Threads : pc[t] = "ensured"

-----------------------------------------------------------------------------
(* Opening again after a failed migration (checked under Spec) *)

\* The steps at which convertJsonToSqlite gives up.
FailedSteps == {"parse", "capture", "field"}

\* The last call ran a migration for the primary source and it failed.
MigrationFailed == Opening /\ lastCall.migrated.luma \in FailedSteps

\* C25: after a JSON migration has failed for a source, no later open of
\* that source reads the leftover of the failed migration as a valid store:
\* the next open of the source runs the migration from the JSON sidecar
\* again, instead of being blocked by a store file left at a .db candidate
\* path, and succeeds only after a complete migration.
C25_MigrationRetried ==
    [][MigrationFailed /\ lastCall' # lastCall /\ lastCall'.In = lastCall.In =>
          /\ lastCall'.migrated.luma # "no"
          /\ lastCall'.opened.luma => lastCall'.migrated.luma = "commit"]_vars

\* The second open of a source whose migration had failed: the sidecar is
\* still there, the store left by the failed migration is found at the .db
\* path, no migration is run and the open fails on the empty store.
C25_Witness ==
    /\ Opening /\ lastCall.migrated.luma = "no" /\ ~lastCall.opened.luma
    /\ MigrationTarget \in DOMAIN Before
    /\ Before[MigrationTarget] = createSchema
    /\ JsonPath(Before, CallExt) \in DOMAIN Before
    /\ reader.luma.lastError = "Failed to read metadata"

-----------------------------------------------------------------------------
(* SpecDual: a primary and a chroma capture of different active widths *)

\* The primary capture is three samples wide; the chroma capture starts one
\* column later and is two, three or four samples wide.
InitDual ==
    /\ disk \in [luma : {StoreDisk(Store(sys, 1, 4, FALSE, MaxFields)) :
                            sys \in {"NTSC", "PAL"}},
                 chroma : {StoreDisk(Store(sys, 2, end, FALSE, MaxFields)) :
                            sys \in {"NTSC", "PAL"}, end \in {4, 5, 6}}]
    /\ InitProgram

\* Two sources, colour, with each padding multiple.
DualCalls ==
    {[NoIn EXCEPT !.source = <<<<"tbc">>>>, !.chroma = <<<<"tbc">>>>,
                  !.padding_multiple = m] :
        m \in {<<>>, <<0>>, <<MaxPad>>}}

NextDual ==
    \/ \E In \in DualCalls : ~lastCall.made /\ Create4fscSource(In)
    \/ VSAnalog4fscSourceFree
    \/ \E n \in FrameNumbers :
          frame = NoFrame /\ VSAnalog4fscSourceGetFrame(n)

SpecDual == InitDual /\ [][NextDual]_vars

\* The chroma reader's geometry.
ChromaParameters == reader.chroma.videoParameters

\* Position p of a ComponentFrame of the chroma reader lies in the active
\* region of the chroma capture, and in the frame the fields make up.
InChromaActiveRegion(p) ==
    /\ p.col >= ChromaParameters.activeVideoStart
    /\ p.col < ChromaParameters.activeVideoEnd
    /\ p.line >= ChromaParameters.firstActiveFrameLine
    /\ p.line < ChromaParameters.lastActiveFrameLine

InChromaFieldGeometry(p) ==
    /\ p.col >= 0 /\ p.col < ChromaParameters.fieldWidth
    /\ p.line >= 0 /\ p.line < 2 * ChromaParameters.fieldHeight - 1

\* C26: in dual-source mode, for every active destination sample (y <
\* primary activeHeight, x < primary activeWidth) the chroma sample is read
\* from the chroma ComponentFrame at row chromaFirstActiveFrameLine + y and
\* column chromaActiveVideoStart + x, and that position lies inside the
\* chroma capture's own active region and inside its field geometry;
\* equivalently, two readers that pass the dual-source validation have equal
\* active width and active height.
C26_ChromaReadInsideActiveRegion ==
    D.exists /\ D.hasChroma =>
        /\ reader.luma.activeWidth = reader.chroma.activeWidth
        /\ reader.luma.activeHeight = reader.chroma.activeHeight
        /\ frame.status = "ok" =>
              \A comp \in {"U", "V"}, y \in ActiveRows, x \in ActiveCols :
                 LET s == frame.planes[comp][y][x]
                 IN /\ s.read # <<>>
                    /\ s.read[1].role = "chroma"
                    /\ s.read[1].line = ChromaParameters.firstActiveFrameLine + y
                    /\ s.read[1].col = ChromaParameters.activeVideoStart + x
                    /\ InChromaActiveRegion(s.read[1])
                    /\ InChromaFieldGeometry(s.read[1])

\* A frame of a dual source whose chroma capture is narrower than the
\* primary one: the last active column of U is read from the chroma frame
\* at the chroma capture's activeVideoEnd, past its active region.
C26_Witness ==
    /\ FrameOfSource /\ D.hasChroma
    /\ reader.chroma.activeWidth < reader.luma.activeWidth
    /\ reader.chroma.outputWidth = reader.luma.outputWidth
    /\ LET s == frame.planes["U"][0][reader.luma.activeWidth - 1]
       IN /\ s.read # <<>>
          /\ s.read[1].role = "chroma"
          /\ s.read[1].col = ChromaParameters.activeVideoEnd

-----------------------------------------------------------------------------
(* SpecAdvertised: the host requests the frames the stream advertises *)

\* One call per behaviour, then one request for a frame 0 <= n < VI.numFrames.
NextAdvertised ==
    \/ \E In \in PropCalls : ~lastCall.made /\ Create4fscSource(In)
    \/ VSAnalog4fscSourceFree
    \/ \E n \in FrameNumbers :
          /\ n >= 0 /\ n < D.VI.numFrames
          /\ frame = NoFrame
          /\ VSAnalog4fscSourceGetFrame(n)

SpecAdvertised == InitProps /\ [][NextAdvertised]_vars

\* The frame indexes the host may request of the stream.
Advertised == 0..(D.VI.numFrames - 1)

\* C27: for every created stream, the number of frames advertised to the
\* host equals the reader's frame count, so every frame index the host may
\* request (0 <= n < advertised count) passes decodeFrame's range check;
\* this holds also when fpsnum/fpsden override the frame rate.
C27_AdvertisedFramesInRange ==
    D.exists =>
        /\ D.VI.numFrames = getNumFrames(reader.luma)
        /\ \A n \in Advertised :
              decodeFrameError(reader.luma, n) # "Frame number out of range"
        /\ frame # NoFrame => frame.status = "ok"

\* A stream whose frame rate was overridden advertises more frames than the
\* reader has, and a request for an advertised frame failed the range check.
C27_Witness ==
    /\ D.exists /\ FpsNumGiven
    /\ D.VI.numFrames > getNumFrames(reader.luma)
    /\ frame.status = "Failed to decode frame"
    /\ frame.n \in Advertised
    /\ reader.luma.lastError = "Frame number out of range"

-----------------------------------------------------------------------------
(* SpecFramesFair: concurrent frame requests under a fair lock and engines
   that return *)

\* The mutex is fair: a request that finds it free again and again gets it.
\* A request that holds the mutex runs: decodeFrame, the engine and
\* convertToFloat return.
FairFrames ==
    \A t \in Threads :
        /\ SF_vars(Lock(t))
        /\ \A r \in Roles : WF_vars(DecodeBegin(t, r)) /\ WF_vars(DecodeEnd(t, r))
        /\ WF_vars(Convert(t))

SpecFramesFair == InitFrames /\ [][NextFrames]_vars /\ FairFrames

\* A request that has left GetFrame does not hold the mutex, and a failed
\* request has written no plane.
ReleasedOnExit ==
    \A t \in Threads :
        /\ pc[t] \in {"idle", "lock"} => t \notin decodeMutex
        /\ out[t].status = "error" => out[t].planes = {}

-----------------------------------------------------------------------------
(* The video-system family of each derivation (checked under SpecSelect) *)

\* What the stream says of the raster: frame rate, sample aspect ratio of a
\* capture that is not widescreen, primaries and matrix tags.
RasterIsNtsc ==
    /\ D.isNTSC
    /\ <<D.VI.fpsNum, D.VI.fpsDen>> = <<30000, 1001>>
    /\ <<D.sarNum, D.sarDen>> = <<352, 413>>
    /\ FrameProps(D)._Primaries = 6 /\ FrameProps(D)._Matrix = 6

RasterIsPal ==
    /\ ~D.isNTSC
    /\ <<D.VI.fpsNum, D.VI.fpsDen>> = <<25, 1>>
    /\ <<D.sarNum, D.sarDen>> = <<259, 311>>
    /\ FrameProps(D)._Primaries = 5 /\ FrameProps(D)._Matrix = 5

\* The NTSC comb engine the decoder argument names is the reader's engine.
NamedCombKept ==
    /\ reader.luma.activeDecoder = EngineOfName[ToLower(DecoderName)]
    /\ reader.luma.engines = {"comb"}

\* C29 as amended: the raster derivations (frame rate, sample aspect ratio,
\* primaries/matrix tags) take NTSC and PAL-M for the NTSC family, and engine
\* selection takes the colour carrier, for which PAL-M is PAL: on a PAL-M
\* capture the stream runs at 30000/1001 with the NTSC tags, auto selects
\* Pal2D and a requested NTSC comb engine is replaced by Pal2D; on an NTSC
\* capture auto selects Ntsc2D and a requested NTSC comb engine is kept.
C29_RasterFamilyAndCarrier ==
    lastCall.made /\ D.exists =>
        /\ IF NtscFamily THEN RasterIsNtsc ELSE RasterIsPal
        /\ DecoderName \notin KnownNames =>
              IsFamilyDefault(reader.luma, SystemOf("luma"))
        /\ DecoderName \in NtscNames =>
              IF SystemOf("luma") = "NTSC" THEN NamedCombKept
              ELSE IsPal2D(reader.luma)

\* C29 as the specification states it: the video-system family used for a
\* capture is the same in every derivation: a PAL-M capture that is treated
\* as NTSC-family for frame rate (30000/1001), sample aspect ratio and
\* primaries/matrix tags is also treated as NTSC-family for engine
\* selection, i.e. auto selects the NTSC default comb engine and an
\* explicitly requested NTSC comb engine is kept rather than replaced.
C29_OneFamilyEverywhere ==
    lastCall.made /\ D.exists /\ NtscFamily =>
        /\ RasterIsNtsc
        /\ DecoderName \notin KnownNames => IsNtsc2D(reader.luma)
        /\ DecoderName \in NtscNames => NamedCombKept

\* A PAL-M capture opened with decoder="ntsc3d": the stream runs at
\* 30000/1001 with the NTSC tags and decodes with PALcolour.
C29_Witness ==
    /\ lastCall.made /\ D.exists
    /\ SystemOf("luma") = "PAL_M" /\ DecoderName = "ntsc3d"
    /\ RasterIsNtsc
    /\ IsPal2D(reader.luma) /\ reader.luma.engines = {"pal"}

-----------------------------------------------------------------------------
(* SpecLevels: captures whose white and black levels may be equal *)

\* The pairs <<white_16b_ire, black_16b_ire>> of the stores: the levels of
\* Store, equal levels, and both levels zero.
LevelPairs == {<<48, 16>>, <<16, 16>>, <<0, 0>>}

StoreWithLevels(sys, levels) ==
    [Store(sys, 1, 4, FALSE, MaxFields) EXCEPT
        !.capture[1].white_16b_ire = levels[1],
        !.capture[1].black_16b_ire = levels[2]]

\* JSON sidecars with the geometry of those stores: one with both level
\* keys, one with neither.
JsonGeometry(sys) ==
    [system |-> sys, fieldWidth |-> 6,
     fieldHeight |-> IF sys = "PAL" THEN 313 ELSE 263,
     activeVideoStart |-> 1, activeVideoEnd |-> 4, isWidescreen |-> FALSE]

JsonLevels == [white16bIre |-> 48, black16bIre |-> 16]

LevelSidecars(sys) ==
    {JsonFile([videoParameters |-> v, fields |-> JsonFields("from0", MaxFields)]) :
        v \in {JsonGeometry(sys), JsonGeometry(sys) @@ JsonLevels}}

SidecarDisk(json) ==
    MkDisk((FullJson(<<"tbc">>) :> Present(json)) @@ [e \in Exts |-> Present(SampleFile)])

InitLevels ==
    /\ disk \in [luma : UNION {{StoreDisk(StoreWithLevels(sys, l)) : l \in LevelPairs}
                                 \cup {SidecarDisk(j) : j \in LevelSidecars(sys)} :
                               sys \in {"NTSC", "PAL"}},
                 chroma : {PlainDisk}]
    /\ InitProgram

LevelCalls ==
    {[NoIn EXCEPT !.source = <<<<"tbc">>>>, !.decoder = d, !.padding_multiple = m] :
        d \in {<<>>, <<"mono">>}, m \in {<<>>, <<0>>}}

\* One call per behaviour, then one frame request.
NextLevels ==
    \/ \E In \in LevelCalls : ~lastCall.made /\ Create4fscSource(In)
    \/ VSAnalog4fscSourceFree
    \/ \E n \in FrameNumbers :
          frame = NoFrame /\ VSAnalog4fscSourceGetFrame(n)

SpecLevels == InitLevels /\ [][NextLevels]_vars

\* yRange of convertToFloat for reader r: white16bIre - black16bIre.
LevelRange(r) ==
    reader[r].videoParameters.white16bIre - reader[r].videoParameters.black16bIre

\* The divisors of the samples of the frame returned: yRange for Y, uvRange
\* (times the constant of the matrix) for U and V.
Divisors ==
    {frame.planes[c][y][x].value.den :
        c \in {"Y"}, y \in {0, reader.luma.activeHeight - 1},
        x \in {0, reader.luma.activeWidth - 1}}
    \cup IF D.isMono THEN {}
         ELSE {frame.planes[c][0][0].value.den : c \in {"U", "V"}}

\* C30: for every successfully opened reader, whiteLevel - blackLevel is
\* non-zero, so the luma and chroma scale factors of the output normalizer
\* are always defined: a capture whose white and black levels are equal
\* (including a JSON sidecar that omits both keys, which defaults both to 0)
\* is rejected at open and never reaches the normalizer.
C30_LevelsDiffer ==
    /\ reader.luma.isOpen => LevelRange("luma") # 0
    /\ D.exists /\ frame.status = "ok" => 0 \notin Divisors

\* A frame of a capture migrated from a JSON sidecar that has neither level
\* key: the reader's levels are both 0 and the samples were divided by 0.
C30_Witness ==
    /\ D.exists /\ frame.status = "ok"
    /\ lastCall.migrated.luma = "commit"
    /\ reader.luma.isOpen
    /\ reader.luma.videoParameters.white16bIre = 0
    /\ reader.luma.videoParameters.black16bIre = 0
    /\ Divisors = {0}

====
